---- MODULE Spec2Model ----
(***************************************************************************)
(* Continuous-acquisition core of the X-Zell Zeiss camera adapter          *)
(* (DeviceAdapters/XZellZeissCam/XZellZeissCam.cpp): the double-buffered   *)
(* hand-off between the vendor callback LiveCallback and the drain step    *)
(* MoveImageToCircularBuffer, the worker ZeissAcquisitionThread::svc and   *)
(* the entry points StartSequenceAcquisition / StopSequenceAcquisition.    *)
(*                                                                         *)
(* Every thread is a little program counter machine; one action is one     *)
(* step between two points at which another thread can observe or change  *)
(* the shared state.                                                       *)
(***************************************************************************)
EXTENDS Integers, Sequences, FiniteSets, TLC

\* ---------------------------------------------------------------- bounds
MaxStarts  == 1     \* successful StartSequenceAcquisition calls in Spec
MaxFrames  == 2     \* LiveCallback invocations in Spec
MaxCount   == 2     \* largest finite numImages passed to Start
RaceFrames == 4     \* LiveCallback invocations in SpecRace
MaxRuns    == 2     \* threads created by activate() in SpecRestart
OverflowFrames == 3 \* LiveCallback invocations in SpecOverflow
RestartFrames == 2  \* LiveCallback invocations in SpecRestart
StaleFrames == 2    \* LiveCallback invocations in SpecStale
MaxPixels == 6      \* pixels of an image GenerateSyntheticImage is followed on
MaxSnaps == 2       \* calls of RunSequenceOnThread
MaxForced == 1      \* iterations of a saturate / drop loop

\* ------------------------------------------------------------ identities
Slots     == {0, 1}             \* index of ImageBufferWithHeader / imageNumber
Workers   == 1 .. MaxRuns       \* the k-th thread created by activate()
Producers == {101, 102}         \* contexts the vendor SDK calls LiveCallback on
NoOwner   == 0                  \* an unlocked mutex
Junk      == 0                  \* torn, uninitialised or released pixel data
LONG_MAX  == 2147483647         \* the maximum count of a 32-bit long (unbounded run)
DefaultCCDXSize == 2464         \* cameraCCDXSize_(2464)
DefaultCCDYSize == 2056         \* cameraCCDYSize_(2056)
MinCCDSize == 16                \* value < 16 is an invalid image size
MaxCCDSize == 33000             \* 33000 < value is an invalid image size
DefaultFraction == 2            \* fractionOfPixelsToDropOrSaturate_(0.002)
MaxFraction == 100              \* SetPropertyLimits(.., 0., 0.1)
RAND_MAX == 32767               \* the largest value rand() returns

VARIABLES
  \* file-scope globals (XZellZeissCam.cpp:65-80)
  imageNumber,        \* int imageNumber[2]
  lastImageRead,      \* int lastImageRead
  bufferMutex,        \* std::mutex bufferMutex[2] : owner of each
  imageCount,         \* unsigned int imageCount
  mtx,                \* std::mutex mtx : owner
  newImageAvailable,  \* bool newImageAvailable
  bufPix,             \* content of ImageBufferWithHeader[i] (frame id / Junk)
  bufState,           \* "null" | "alloc" | "freed"
  liveOn,             \* McammStart/StopContinuousAcquisition: callbacks arrive
  \* XZellZeissCamera members
  imageCounter_,      \* XZellZeissCamera::imageCounter_
  stopOnOverflow_,
  imgPixelsLock_,     \* owner
  \* ZeissAcquisitionThread members
  stop_, suspend_, numImages_, thd_imageCounter_,
  nActivated,         \* number of threads created by activate()
  \* LiveCallback invocations
  ppc, lockNumber, pFrame, pTmp, nFrames,
  \* worker threads running svc / MoveImageToCircularBuffer
  wpc, lockNum, bufferWithHeader, ret, wPix, wSeq, wExp,
  \* the thread calling the camera API
  apc, aNum, aOverflow, apiRet,
  \* environment: MMCore sink and observers
  sunk,               \* frames accepted by CoreCallback::InsertImage
  recFrame,           \* frame whose number is recorded in imageNumber[i]
  acqFinished,        \* AcqFinished notifications per worker
  stopRequested,      \* StopSequenceAcquisition was called since construction
  sinkRefused,        \* the sink answered something else than DEVICE_OK
  \* XZellZeissCamera members: image format and geometry
  bitDepth_, nComponents_, binSize_, cameraCCDXSize_, cameraCCDYSize_,
  img_,               \* ImgBuffer img_ : Width(), Height(), Depth()
  propRet,            \* what the last property handler returned
  \* XZellZeissCamera members: synthetic image
  mode_,              \* MODE_ARTIFICIAL_WAVES | MODE_NOISE | MODE_COLOR_TEST
  dropPixels_, saturatePixels_,
  fractionOfPixelsToDropOrSaturate_,  \* in thousandths
  shouldDisplayImageNumber_,
  multiROIFillValue_,
  multiROI,           \* multiROIXs_, multiROIYs_, multiROIWidths_, multiROIHeights_
  roiX_, roiY_,
  pix,                \* pixels of img_ after the last GenerateSyntheticImage
  base,               \* the same pixels right after the base pattern
  written,            \* <<row, column>> of every pixel written by that call
  injected,           \* positions it forced to the maximum / to 0
  noise,              \* the values it drew for background and signal,
                      \* and what AddBackgroundAndNoise stored
  synthCalls,         \* calls of GenerateSyntheticImage so far
  synthRet            \* "none" | "returned" | "crashed"

globals  == <<imageNumber, lastImageRead, bufferMutex, imageCount, mtx,
              newImageAvailable, bufPix, bufState, liveOn>>
camera   == <<imageCounter_, stopOnOverflow_, imgPixelsLock_>>
thd      == <<stop_, suspend_, numImages_, thd_imageCounter_, nActivated>>
prod     == <<ppc, lockNumber, pFrame, pTmp, nFrames>>
work     == <<wpc, lockNum, bufferWithHeader, ret, wPix, wSeq, wExp>>
api      == <<apc, aNum, aOverflow, apiRet>>
env      == <<sunk, recFrame, acqFinished, stopRequested, sinkRefused>>
config   == <<bitDepth_, nComponents_, binSize_, cameraCCDXSize_,
              cameraCCDYSize_, img_, propRet>>
synth    == <<mode_, dropPixels_, saturatePixels_,
              fractionOfPixelsToDropOrSaturate_, shouldDisplayImageNumber_,
              multiROIFillValue_, multiROI, roiX_, roiY_, pix, base, written,
              injected, noise, synthCalls, synthRet>>
vars     == <<globals, camera, thd, prod, work, api, env, config, synth>>

\* ------------------------------------------------------------------ Init
\* State after XZellZeissCamera::XZellZeissCamera and static initialisation;
\* the image buffer as Initialize leaves it (ResizeImageBuffer, 605).
Init ==
  /\ imageNumber = [i \in Slots |-> 0]
  /\ lastImageRead = 0
  /\ bufferMutex = [i \in Slots |-> NoOwner]
  /\ imageCount = 0
  /\ mtx = NoOwner
  /\ newImageAvailable = FALSE
  /\ bufPix = [i \in Slots |-> Junk]
  /\ bufState = "null"
  /\ liveOn = FALSE
  /\ imageCounter_ = 0
  /\ stopOnOverflow_ = FALSE
  /\ imgPixelsLock_ = NoOwner
  /\ stop_ = TRUE
  /\ suspend_ = FALSE
  /\ numImages_ = 1
  /\ thd_imageCounter_ = 0
  /\ nActivated = 0
  /\ ppc = [p \in Producers |-> "idle"]
  /\ lockNumber = [p \in Producers |-> 0]
  /\ pFrame = [p \in Producers |-> 0]
  /\ pTmp = [p \in Producers |-> 0]
  /\ nFrames = 0
  /\ wpc = [w \in Workers |-> "off"]
  /\ lockNum = [w \in Workers |-> -1]
  /\ bufferWithHeader = [w \in Workers |-> -1]
  /\ ret = [w \in Workers |-> "DEVICE_ERR"]
  /\ wPix = [w \in Workers |-> Junk]
  /\ wSeq = [w \in Workers |-> 0]
  /\ wExp = [w \in Workers |-> Junk]
  /\ apc = "idle"
  /\ aNum = 0
  /\ aOverflow = FALSE
  /\ apiRet = "none"
  /\ sunk = <<>>
  /\ recFrame = [i \in Slots |-> Junk]
  /\ acqFinished = [w \in Workers |-> 0]
  /\ stopRequested = FALSE
  /\ sinkRefused = FALSE
  /\ bitDepth_ = 8
  /\ nComponents_ = 1
  /\ binSize_ = 1
  /\ cameraCCDXSize_ = DefaultCCDXSize
  /\ cameraCCDYSize_ = DefaultCCDYSize
  /\ img_ = [Width |-> DefaultCCDXSize, Height |-> DefaultCCDYSize,
             Depth |-> 1]
  /\ propRet = "none"
  /\ mode_ = "MODE_ARTIFICIAL_WAVES"
  /\ dropPixels_ = FALSE
  /\ saturatePixels_ = FALSE
  /\ fractionOfPixelsToDropOrSaturate_ = DefaultFraction
  /\ shouldDisplayImageNumber_ = FALSE
  /\ multiROIFillValue_ = 0
  /\ multiROI = <<>>
  /\ roiX_ = 0
  /\ roiY_ = 0
  /\ pix = <<>>
  /\ base = <<>>
  /\ written = {}
  /\ injected = [sat |-> <<>>, drop |-> <<>>]
  /\ noise = <<>>
  /\ synthCalls = 0
  /\ synthRet = "none"

\* bool XZellZeissCamera::IsCapturing() / ZeissAcquisitionThread::IsStopped()
IsStopped == stop_
IsCapturing == ~IsStopped

\* ======================================================================
\* LiveCallback (XZellZeissCam.cpp:1067-1102), one invocation on context p
\* ======================================================================
\* The vendor SDK calls LiveCallback while continuous acquisition is on.
\* The second context is used only while a callback is already in flight
\* (contexts keep nothing between invocations, so their names are
\* interchangeable).  maxF bounds the number of invocations.
CanInvoke(p, maxF) ==
  /\ ppc[p] = "idle"
  /\ liveOn
  /\ nFrames < maxF
  /\ \A q \in Producers : q < p => ppc[q] # "idle"

\* for i = 0: bufferMutex[0].try_lock(); the frame handed in is nFrames+1.
\* On success the memcpy into the slot begins.
LiveCallback_try0(p, maxF) ==
  /\ CanInvoke(p, maxF)
  /\ nFrames' = nFrames + 1
  /\ pFrame' = [pFrame EXCEPT ![p] = nFrames + 1]
  /\ IF bufferMutex[0] = NoOwner
       THEN /\ bufferMutex' = [bufferMutex EXCEPT ![0] = p]
            /\ lockNumber' = [lockNumber EXCEPT ![p] = 0]
            /\ bufPix' = [bufPix EXCEPT ![0] = Junk]
            /\ ppc' = [ppc EXCEPT ![p] = "memcpy"]
       ELSE /\ ppc' = [ppc EXCEPT ![p] = "try1"]
            /\ UNCHANGED <<bufferMutex, lockNumber, bufPix>>
  /\ UNCHANGED <<imageNumber, lastImageRead, imageCount, mtx,
                 newImageAvailable, bufState, liveOn, pTmp>>
  /\ UNCHANGED <<camera, thd, work, api, env>>
  /\ UNCHANGED <<config, synth>>

\* LiveCallback announcing a frame that it skipped.
LiveCallback_try1_announces(p) ==
  /\ ppc[p] = "try1"
  /\ IF bufferMutex[1] = NoOwner
       THEN /\ bufferMutex' = [bufferMutex EXCEPT ![1] = p]
            /\ lockNumber' = [lockNumber EXCEPT ![p] = 1]
            /\ bufPix' = [bufPix EXCEPT ![1] = Junk]
            /\ ppc' = [ppc EXCEPT ![p] = "memcpy"]
            /\ UNCHANGED <<pFrame, newImageAvailable>>
       ELSE /\ ppc' = [ppc EXCEPT ![p] = "idle"]
            /\ pFrame' = [pFrame EXCEPT ![p] = 0]
            /\ newImageAvailable' = TRUE
            /\ UNCHANGED <<bufferMutex, lockNumber, bufPix>>
  /\ UNCHANGED <<imageNumber, lastImageRead, imageCount, mtx,
                 bufState, liveOn, pTmp, nFrames>>
  /\ UNCHANGED <<camera, thd, work, api, env>>
  /\ UNCHANGED <<config, synth>>

\* for i = 1: bufferMutex[1].try_lock(); when both are held the frame is
\* skipped and the callback returns.
LiveCallback_try1(p) ==
  /\ ppc[p] = "try1"
  /\ IF bufferMutex[1] = NoOwner
       THEN /\ bufferMutex' = [bufferMutex EXCEPT ![1] = p]
            /\ lockNumber' = [lockNumber EXCEPT ![p] = 1]
            /\ bufPix' = [bufPix EXCEPT ![1] = Junk]
            /\ ppc' = [ppc EXCEPT ![p] = "memcpy"]
            /\ UNCHANGED pFrame
       ELSE /\ ppc' = [ppc EXCEPT ![p] = "idle"]
            /\ pFrame' = [pFrame EXCEPT ![p] = 0]
            /\ UNCHANGED <<bufferMutex, lockNumber, bufPix>>
  /\ UNCHANGED <<imageNumber, lastImageRead, imageCount, mtx,
                 newImageAvailable, bufState, liveOn, pTmp, nFrames>>
  /\ UNCHANGED <<camera, thd, work, api, env>>
  /\ UNCHANGED <<config, synth>>

\* memcpy(ImageBufferWithHeader[lockNumber], img, bytesize) completes.
\* A released or never allocated buffer keeps no frame.
LiveCallback_memcpy(p) ==
  /\ ppc[p] = "memcpy"
  /\ bufPix' = [bufPix EXCEPT ![lockNumber[p]] =
                   IF bufState = "alloc" THEN pFrame[p] ELSE Junk]
  /\ ppc' = [ppc EXCEPT ![p] = "incR"]
  /\ UNCHANGED <<imageNumber, lastImageRead, bufferMutex, imageCount, mtx,
                 newImageAvailable, bufState, liveOn>>
  /\ UNCHANGED <<lockNumber, pFrame, pTmp, nFrames>>
  /\ UNCHANGED <<camera, thd, work, api, env>>
  /\ UNCHANGED <<config, synth>>

\* imageCount++ is a plain read-modify-write of a global that no lock
\* protects: the read ...
LiveCallback_incRead(p) ==
  /\ ppc[p] = "incR"
  /\ pTmp' = [pTmp EXCEPT ![p] = imageCount]
  /\ ppc' = [ppc EXCEPT ![p] = "incW"]
  /\ UNCHANGED <<globals, lockNumber, pFrame, nFrames>>
  /\ UNCHANGED <<camera, thd, work, api, env>>
  /\ UNCHANGED <<config, synth>>

\* ... and the write back.
LiveCallback_incWrite(p) ==
  /\ ppc[p] = "incW"
  /\ imageCount' = pTmp[p] + 1
  /\ ppc' = [ppc EXCEPT ![p] = "num"]
  /\ UNCHANGED <<imageNumber, lastImageRead, bufferMutex, mtx,
                 newImageAvailable, bufPix, bufState, liveOn>>
  /\ UNCHANGED <<lockNumber, pFrame, pTmp, nFrames>>
  /\ UNCHANGED <<camera, thd, work, api, env>>
  /\ UNCHANGED <<config, synth>>

\* imageNumber[lockNumber] = imageCount;
LiveCallback_number(p) ==
  /\ ppc[p] = "num"
  /\ imageNumber' = [imageNumber EXCEPT ![lockNumber[p]] = imageCount]
  /\ recFrame' = [recFrame EXCEPT ![lockNumber[p]] = pFrame[p]]
  /\ ppc' = [ppc EXCEPT ![p] = "unlock"]
  /\ UNCHANGED <<lastImageRead, bufferMutex, imageCount, mtx,
                 newImageAvailable, bufPix, bufState, liveOn>>
  /\ UNCHANGED <<lockNumber, pFrame, pTmp, nFrames>>
  /\ UNCHANGED <<camera, thd, work, api>>
  /\ UNCHANGED <<sunk, acqFinished, stopRequested, sinkRefused>>
  /\ UNCHANGED <<config, synth>>

\* bufferMutex[lockNumber].unlock();
LiveCallback_unlock(p) ==
  /\ ppc[p] = "unlock"
  /\ bufferMutex' = [bufferMutex EXCEPT ![lockNumber[p]] = NoOwner]
  /\ ppc' = [ppc EXCEPT ![p] = "lockmtx"]
  /\ UNCHANGED <<imageNumber, lastImageRead, imageCount, mtx,
                 newImageAvailable, bufPix, bufState, liveOn>>
  /\ UNCHANGED <<lockNumber, pFrame, pTmp, nFrames>>
  /\ UNCHANGED <<camera, thd, work, api, env>>
  /\ UNCHANGED <<config, synth>>

\* { std::lock_guard<std::mutex> lock(mtx); newImageAvailable = true; }
\* cv.notify_one();   The lock_guard blocks until mtx is free.
LiveCallback_signal(p) ==
  /\ ppc[p] = "lockmtx"
  /\ mtx = NoOwner
  /\ newImageAvailable' = TRUE
  /\ ppc' = [ppc EXCEPT ![p] = "idle"]
  /\ pFrame' = [pFrame EXCEPT ![p] = 0]
  /\ pTmp' = [pTmp EXCEPT ![p] = 0]
  /\ lockNumber' = [lockNumber EXCEPT ![p] = 0]
  /\ UNCHANGED <<imageNumber, lastImageRead, bufferMutex, imageCount, mtx,
                 bufPix, bufState, liveOn, nFrames>>
  /\ UNCHANGED <<camera, thd, work, api, env>>
  /\ UNCHANGED <<config, synth>>

LiveCallback(p, maxF) ==
  \/ LiveCallback_try0(p, maxF)
  \/ LiveCallback_try1(p)
  \/ LiveCallback_memcpy(p)
  \/ LiveCallback_incRead(p)
  \/ LiveCallback_incWrite(p)
  \/ LiveCallback_number(p)
  \/ LiveCallback_unlock(p)
  \/ LiveCallback_signal(p)

\* ======================================================================
\* ZeissAcquisitionThread::svc (1544-1565) and
\* XZellZeissCamera::MoveImageToCircularBuffer (1319-1463) on worker w
\* ======================================================================
\* Leaving MoveImageToCircularBuffer: the unique_lock on mtx and the
\* MMThreadGuard on imgPixelsLock_ are released, the locals go away.
Return(w, r, next) ==
  /\ ret' = [ret EXCEPT ![w] = r]
  /\ wpc' = [wpc EXCEPT ![w] = next]
  /\ mtx' = NoOwner
  /\ imgPixelsLock_' = NoOwner
  /\ lockNum' = [lockNum EXCEPT ![w] = -1]
  /\ bufferWithHeader' = [bufferWithHeader EXCEPT ![w] = -1]
  /\ wPix' = [wPix EXCEPT ![w] = Junk]
  /\ wSeq' = [wSeq EXCEPT ![w] = 0]
  /\ wExp' = [wExp EXCEPT ![w] = Junk]

\* do { ret = camera_->MoveImageToCircularBuffer();  -- the call and
\* if (!IsCapturing()) return DEVICE_ERR;  (1324-1329)
Move_enter(w) ==
  /\ wpc[w] = "loop"
  /\ IF ~IsCapturing
       THEN /\ ret' = [ret EXCEPT ![w] = "DEVICE_ERR"]
            /\ wpc' = [wpc EXCEPT ![w] = "cond"]
       ELSE /\ wpc' = [wpc EXCEPT ![w] = "lockPix"]
            /\ UNCHANGED ret
  /\ UNCHANGED <<lockNum, bufferWithHeader, wPix, wSeq, wExp>>
  /\ UNCHANGED <<globals, camera, thd, prod, api, env>>
  /\ UNCHANGED <<config, synth>>

\* MMThreadGuard g(imgPixelsLock_);  (1347) blocks until the lock is free
Move_lockPixels(w) ==
  /\ wpc[w] = "lockPix"
  /\ imgPixelsLock_ = NoOwner
  /\ imgPixelsLock_' = w
  /\ wpc' = [wpc EXCEPT ![w] = "lockMtx"]
  /\ UNCHANGED <<imageCounter_, stopOnOverflow_>>
  /\ UNCHANGED <<lockNum, bufferWithHeader, ret, wPix, wSeq, wExp>>
  /\ UNCHANGED <<globals, thd, prod, api, env>>
  /\ UNCHANGED <<config, synth>>

\* std::unique_lock<std::mutex> lock(mtx);
\* cv.wait(lock, [] { return newImageAvailable; });  (1351-1352)
\* The wait has no timeout: with the flag false the worker gives mtx back
\* and sleeps ("cvwait") until the flag is true and mtx can be retaken.
Move_wait(w) ==
  /\ wpc[w] \in {"lockMtx", "cvwait"}
  /\ mtx = NoOwner
  /\ IF newImageAvailable
       THEN /\ mtx' = w
            /\ lockNum' = [lockNum EXCEPT ![w] = 0]
            /\ wpc' = [wpc EXCEPT ![w] = "scan"]
       ELSE /\ wpc[w] = "lockMtx"
            /\ wpc' = [wpc EXCEPT ![w] = "cvwait"]
            /\ UNCHANGED <<mtx, lockNum>>
  /\ UNCHANGED <<imageNumber, lastImageRead, bufferMutex, imageCount,
                 newImageAvailable, bufPix, bufState, liveOn>>
  /\ UNCHANGED <<bufferWithHeader, ret, wPix, wSeq, wExp>>
  /\ UNCHANGED <<camera, thd, prod, api, env>>
  /\ UNCHANGED <<config, synth>>

\* End of one iteration of for (k ...): without a lock taken, go on with
\* the other slot, or leave the loop after slot 1.
NextSlot(w) ==
  IF lockNum[w] = 0
    THEN /\ lockNum' = [lockNum EXCEPT ![w] = 1]
         /\ wpc' = [wpc EXCEPT ![w] = "scan"]
    ELSE /\ wpc' = [wpc EXCEPT ![w] = "flag"]
         /\ UNCHANGED lockNum

\* if (imageNumber[lockNum] > lastImageRead)  (1373), read without a lock
Move_scan(w) ==
  /\ wpc[w] = "scan"
  /\ IF imageNumber[lockNum[w]] > lastImageRead
       THEN /\ wpc' = [wpc EXCEPT ![w] = "try"]
            /\ UNCHANGED lockNum
       ELSE NextSlot(w)
  /\ UNCHANGED <<bufferWithHeader, ret, wPix, wSeq, wExp>>
  /\ UNCHANGED <<globals, camera, thd, prod, api, env>>
  /\ UNCHANGED <<config, synth>>

\* bool locked = bufferMutex[lockNum].try_lock(); if (locked) {
\*   bufferWithHeader = ImageBufferWithHeader[lockNum];
\*   lastImageRead = imageNumber[lockNum]; newImage = true;  (1375-1387)
Move_tryLock(w) ==
  /\ wpc[w] = "try"
  /\ IF bufferMutex[lockNum[w]] = NoOwner
       THEN /\ bufferMutex' = [bufferMutex EXCEPT ![lockNum[w]] = w]
            /\ bufferWithHeader' = [bufferWithHeader EXCEPT ![w] = lockNum[w]]
            /\ lastImageRead' = imageNumber[lockNum[w]]
            /\ wSeq' = [wSeq EXCEPT ![w] = imageNumber[lockNum[w]]]
            /\ wExp' = [wExp EXCEPT ![w] = recFrame[lockNum[w]]]
            /\ wpc' = [wpc EXCEPT ![w] = "unlock"]
            /\ UNCHANGED lockNum
       ELSE /\ NextSlot(w)
            /\ UNCHANGED <<bufferMutex, bufferWithHeader, lastImageRead,
                           wSeq, wExp>>
  /\ UNCHANGED <<imageNumber, imageCount, mtx, newImageAvailable, bufPix,
                 bufState, liveOn>>
  /\ UNCHANGED <<ret, wPix>>
  /\ UNCHANGED <<camera, thd, prod, api, env>>
  /\ UNCHANGED <<config, synth>>

\* bufferMutex[lockNum].unlock(); break;  (1389-1391): the slot lock is
\* given back before the pixels are read
Move_unlock(w) ==
  /\ wpc[w] = "unlock"
  /\ bufferMutex' = [bufferMutex EXCEPT ![lockNum[w]] = NoOwner]
  /\ wpc' = [wpc EXCEPT ![w] = "flag"]
  /\ UNCHANGED <<imageNumber, lastImageRead, imageCount, mtx,
                 newImageAvailable, bufPix, bufState, liveOn>>
  /\ UNCHANGED <<lockNum, bufferWithHeader, ret, wPix, wSeq, wExp>>
  /\ UNCHANGED <<camera, thd, prod, api, env>>
  /\ UNCHANGED <<config, synth>>

\* newImageAvailable = false; if (newImage) {...}
\* return DEVICE_CAMERA_BUSY_ACQUIRING;  (1403-1458)
Move_flag(w) ==
  /\ wpc[w] = "flag"
  /\ newImageAvailable' = FALSE
  /\ IF bufferWithHeader[w] # -1
       THEN /\ wpc' = [wpc EXCEPT ![w] = "copy"]
            /\ UNCHANGED <<mtx, imgPixelsLock_, lockNum, bufferWithHeader,
                           ret, wPix, wSeq, wExp>>
       ELSE Return(w, "DEVICE_CAMERA_BUSY_ACQUIRING", "cond")
  /\ UNCHANGED <<imageNumber, lastImageRead, bufferMutex, imageCount,
                 bufPix, bufState, liveOn>>
  /\ UNCHANGED <<imageCounter_, stopOnOverflow_>>
  /\ UNCHANGED <<thd, prod, api, env>>
  /\ UNCHANGED <<config, synth>>

\* What a read of slot b yields now.
SlotContent(b) == IF bufState = "alloc" THEN bufPix[b] ELSE Junk

\* imageHeader = (IMAGE_HEADER*)bufferWithHeader; pixelData = ...;
\* memcpy(img_.GetPixelsRW(), imgBuf, ...) starts  (1414-1432)
Move_copyBegin(w) ==
  /\ wpc[w] = "copy"
  /\ wPix' = [wPix EXCEPT ![w] = SlotContent(bufferWithHeader[w])]
  /\ wpc' = [wpc EXCEPT ![w] = "copying"]
  /\ UNCHANGED <<lockNum, bufferWithHeader, ret, wSeq, wExp>>
  /\ UNCHANGED <<globals, camera, thd, prod, api, env>>
  /\ UNCHANGED <<config, synth>>

\* ... and ends (1432-1434): a slot that changed meanwhile gives a torn copy
Move_copyEnd(w) ==
  /\ wpc[w] = "copying"
  /\ wPix' = [wPix EXCEPT ![w] =
                IF SlotContent(bufferWithHeader[w]) = wPix[w]
                  THEN wPix[w] ELSE Junk]
  /\ wpc' = [wpc EXCEPT ![w] = "insert"]
  /\ UNCHANGED <<lockNum, bufferWithHeader, ret, wSeq, wExp>>
  /\ UNCHANGED <<globals, camera, thd, prod, api, env>>
  /\ UNCHANGED <<config, synth>>

\* pixelData points into the slot (or into processedImage), and imgBuf, the
\* pointer given to memcpy and to InsertImage (1431-1449), is pixelData: from
\* the header read to the end of the delivery the worker reads memory that
\* StopSequenceAcquisition releases without waiting (1206, 1210-1212).
\* Reading a released block is undefined: the read may yield stale or
\* foreign data (the steps above and below), or fault, which ends the
\* worker with everything else of the process.
Move_fault(w) ==
  /\ wpc[w] \in {"copy", "copying", "insert", "retry"}
  /\ bufState = "freed"
  /\ Return(w, ret[w], "crashed")
  /\ UNCHANGED <<imageNumber, lastImageRead, bufferMutex, imageCount,
                 newImageAvailable, bufPix, bufState, liveOn>>
  /\ UNCHANGED <<imageCounter_, stopOnOverflow_>>
  /\ UNCHANGED <<thd, prod, api, env>>
  /\ UNCHANGED <<config, synth>>

\* The frame the worker is handing to the sink.
Frame(w) == [w |-> w, seq |-> wSeq[w]]

\* What CoreCallback::InsertImage can answer.
SinkAnswers == {"DEVICE_OK", "DEVICE_BUFFER_OVERFLOW", "DEVICE_ERR"}

\* if (ret == DEVICE_OK) imageCounter_++; return ret;  (1452-1454)
Move_return(w, r) ==
  /\ Return(w, r, "cond")
  /\ imageCounter_' = IF r = "DEVICE_OK" THEN imageCounter_ + 1
                                          ELSE imageCounter_
  /\ sunk' = IF r = "DEVICE_OK" THEN Append(sunk, Frame(w)) ELSE sunk
  /\ sinkRefused' = (sinkRefused \/ r # "DEVICE_OK")

\* The sink has answered r to the first InsertImage:
\* if (!stopOnOverflow_ && ret == DEVICE_BUFFER_OVERFLOW) { clear, retry }
\* if (ret == DEVICE_OK) imageCounter_++; return ret;   (1444-1454)
Move_answer(w, r) ==
  IF r = "DEVICE_BUFFER_OVERFLOW" /\ ~stopOnOverflow_
    THEN /\ wpc' = [wpc EXCEPT ![w] = "retry"]
         /\ sinkRefused' = TRUE
         /\ UNCHANGED <<mtx, imgPixelsLock_, lockNum, bufferWithHeader,
                        ret, wPix, wSeq, wExp, imageCounter_, sunk>>
    ELSE Move_return(w, r)

\* Move_insert without the catch (...) of svc: an exception thrown by the
\* sink ends the thread at once.
Move_insert_uncaught(w, r, thrown) ==
  /\ wpc[w] = "insert"
  /\ IF thrown
       THEN /\ Return(w, ret[w], "done")
            /\ sinkRefused' = TRUE
            /\ UNCHANGED <<imageCounter_, sunk>>
       ELSE Move_answer(w, r)
  /\ UNCHANGED <<imageNumber, lastImageRead, bufferMutex, imageCount,
                 newImageAvailable, bufPix, bufState, liveOn>>
  /\ UNCHANGED <<stopOnOverflow_, recFrame, acqFinished, stopRequested>>
  /\ UNCHANGED <<thd, prod, api>>
  /\ UNCHANGED <<config, synth>>

\* int ret = GetCoreCallback()->InsertImage(this, imgBuf, w, h, b); (1441)
\* The sink answers r, or the call throws (thrown): the locks are released
\* by the guards' destructors and the exception reaches the catch (...) of
\* svc (1558), after which svc goes on with stop_ = true.
Move_insert(w, r, thrown) ==
  /\ wpc[w] = "insert"
  /\ IF thrown
       THEN /\ Return(w, ret[w], "exit")
            /\ sinkRefused' = TRUE
            /\ UNCHANGED <<imageCounter_, sunk>>
       ELSE Move_answer(w, r)
  /\ UNCHANGED <<imageNumber, lastImageRead, bufferMutex, imageCount,
                 newImageAvailable, bufPix, bufState, liveOn>>
  /\ UNCHANGED <<stopOnOverflow_, recFrame, acqFinished, stopRequested>>
  /\ UNCHANGED <<thd, prod, api>>
  /\ UNCHANGED <<config, synth>>

\* Move_retry with the answer of the second InsertImage dropped: the drain
\* step reports success whatever the sink said.
Move_retry_forgiving(w, r) ==
  /\ wpc[w] = "retry"
  /\ Return(w, "DEVICE_OK", "cond")
  /\ imageCounter_' = imageCounter_ + 1
  /\ sunk' = IF r = "DEVICE_OK" THEN Append(sunk, Frame(w)) ELSE sunk
  /\ sinkRefused' = TRUE
  /\ UNCHANGED <<imageNumber, lastImageRead, bufferMutex, imageCount,
                 newImageAvailable, bufPix, bufState, liveOn>>
  /\ UNCHANGED <<stopOnOverflow_, recFrame, acqFinished, stopRequested>>
  /\ UNCHANGED <<thd, prod, api>>
  /\ UNCHANGED <<config, synth>>

\* GetCoreCallback()->ClearImageBuffer(this);
\* ret = GetCoreCallback()->InsertImage(this, imgBuf, w, h, b);  (1447-1449)
Move_retry(w, r) ==
  /\ wpc[w] = "retry"
  /\ Move_return(w, r)
  /\ UNCHANGED <<imageNumber, lastImageRead, bufferMutex, imageCount,
                 newImageAvailable, bufPix, bufState, liveOn>>
  /\ UNCHANGED <<stopOnOverflow_, recFrame, acqFinished, stopRequested>>
  /\ UNCHANGED <<thd, prod, api>>
  /\ UNCHANGED <<config, synth>>

\* svc_while with the count of the run replaced by the thread's default
\* count of one image.
svc_while_defaultCount(w) ==
  /\ wpc[w] = "cond"
  /\ IF ret[w] = "DEVICE_OK" /\ ~IsStopped
       THEN /\ thd_imageCounter_' = thd_imageCounter_ + 1
            /\ wpc' = [wpc EXCEPT ![w] =
                 IF thd_imageCounter_ < 1 - 1 THEN "loop" ELSE "exit"]
       ELSE /\ wpc' = [wpc EXCEPT ![w] = "exit"]
            /\ UNCHANGED thd_imageCounter_
  /\ UNCHANGED <<stop_, suspend_, numImages_, nActivated>>
  /\ UNCHANGED <<lockNum, bufferWithHeader, ret, wPix, wSeq, wExp>>
  /\ UNCHANGED <<globals, camera, prod, api, env>>
  /\ UNCHANGED <<config, synth>>

\* } while (DEVICE_OK == ret && !IsStopped() && imageCounter_++ < numImages_-1);
\* (1555) evaluated left to right with short circuit
svc_while(w) ==
  /\ wpc[w] = "cond"
  /\ IF ret[w] = "DEVICE_OK" /\ ~IsStopped
       THEN /\ thd_imageCounter_' = thd_imageCounter_ + 1
            /\ wpc' = [wpc EXCEPT ![w] =
                 IF thd_imageCounter_ < numImages_ - 1 THEN "loop" ELSE "exit"]
       ELSE /\ wpc' = [wpc EXCEPT ![w] = "exit"]
            /\ UNCHANGED thd_imageCounter_
  /\ UNCHANGED <<stop_, suspend_, numImages_, nActivated>>
  /\ UNCHANGED <<lockNum, bufferWithHeader, ret, wPix, wSeq, wExp>>
  /\ UNCHANGED <<globals, camera, prod, api, env>>
  /\ UNCHANGED <<config, synth>>

\* stop_=true; actualDuration_ = ...;  (1561-1562), also after catch (...)
svc_stop(w) ==
  /\ wpc[w] = "exit"
  /\ stop_' = TRUE
  /\ wpc' = [wpc EXCEPT ![w] = "notify"]
  /\ UNCHANGED <<suspend_, numImages_, thd_imageCounter_, nActivated>>
  /\ UNCHANGED <<lockNum, bufferWithHeader, ret, wPix, wSeq, wExp>>
  /\ UNCHANGED <<globals, camera, prod, api, env>>
  /\ UNCHANGED <<config, synth>>

\* camera_->OnThreadExiting(); return ret;  (1563-1564, 1474-1486):
\* AcqFinished is called once; what it throws is caught and logged.
OnThreadExiting(w) ==
  /\ wpc[w] = "notify"
  /\ acqFinished' = [acqFinished EXCEPT ![w] = acqFinished[w] + 1]
  /\ wpc' = [wpc EXCEPT ![w] = "done"]
  /\ ret' = [ret EXCEPT ![w] = "DEVICE_ERR"]
  /\ UNCHANGED <<lockNum, bufferWithHeader, wPix, wSeq, wExp>>
  /\ UNCHANGED <<sunk, recFrame, stopRequested, sinkRefused>>
  /\ UNCHANGED <<globals, camera, thd, prod, api>>
  /\ UNCHANGED <<config, synth>>

\* bool ZeissAcquisitionThread::IsSuspended()  (1534-1537)
IsSuspended == suspend_

\* Suspend ending the run as Stop does.
Suspend_stopping ==
  /\ suspend_' = TRUE
  /\ stop_' = TRUE
  /\ UNCHANGED <<numImages_, thd_imageCounter_, nActivated>>
  /\ UNCHANGED <<globals, camera, prod, work, api, env>>
  /\ UNCHANGED <<config, synth>>

\* void ZeissAcquisitionThread::Suspend(): suspend_ = true under
\* suspendLock_ (1529-1532); any thread may call it at any time.
Suspend ==
  /\ suspend_' = TRUE
  /\ UNCHANGED <<stop_, numImages_, thd_imageCounter_, nActivated>>
  /\ UNCHANGED <<globals, camera, prod, work, api, env>>
  /\ UNCHANGED <<config, synth>>

\* void ZeissAcquisitionThread::Resume(): suspend_ = false under
\* suspendLock_ (1539-1542)
Resume ==
  /\ suspend_' = FALSE
  /\ UNCHANGED <<stop_, numImages_, thd_imageCounter_, nActivated>>
  /\ UNCHANGED <<globals, camera, prod, work, api, env>>
  /\ UNCHANGED <<config, synth>>

svc(w) ==
  \/ Move_enter(w)
  \/ Move_lockPixels(w)
  \/ Move_wait(w)
  \/ Move_scan(w)
  \/ Move_tryLock(w)
  \/ Move_unlock(w)
  \/ Move_flag(w)
  \/ Move_copyBegin(w)
  \/ Move_copyEnd(w)
  \/ \E r \in SinkAnswers : Move_insert(w, r, FALSE)
  \/ Move_insert(w, "DEVICE_ERR", TRUE)
  \/ \E r \in SinkAnswers : Move_retry(w, r)
  \/ Move_fault(w)
  \/ svc_while(w)
  \/ svc_stop(w)
  \/ OnThreadExiting(w)

\* ======================================================================
\* The camera API, called from one application thread
\* ======================================================================
\* numImages values tried: 0 .. MaxCount and the maximum count.
Counts == (0 .. MaxCount) \cup {LONG_MAX}

\* The part of StartSequenceAcquisition after the busy check:
\* ret = PrepareForAcq(this); if (ret != DEVICE_OK) return ret;
\* sequenceStartTime_ = ...; imageCounter_ = 0;   (1127-1131)
\* maxS bounds the number of runs started (threads created so far).
Start_prepare(numImages, stopOnOverflow, prepared, maxS) ==
  IF ~prepared
    THEN /\ apiRet' = "DEVICE_ERR"
         /\ UNCHANGED <<apc, aNum, aOverflow, imageCounter_>>
    ELSE /\ nActivated < maxS
         /\ imageCounter_' = 0
         /\ apc' = "start_alloc"
         /\ aNum' = numImages
         /\ aOverflow' = stopOnOverflow
         /\ apiRet' = "none"

\* Start_check with the frame counter reset placed before the busy check.
Start_check_resetFirst(numImages, stopOnOverflow, prepared, maxS) ==
  /\ apc = "idle"
  /\ IF IsCapturing
       THEN /\ imageCounter_' = 0
            /\ apiRet' = "DEVICE_CAMERA_BUSY_ACQUIRING"
            /\ UNCHANGED <<apc, aNum, aOverflow>>
       ELSE Start_prepare(numImages, stopOnOverflow, prepared, maxS)
  /\ UNCHANGED <<stopOnOverflow_, imgPixelsLock_>>
  /\ UNCHANGED <<globals, thd, prod, work, env>>
  /\ UNCHANGED <<config, synth>>

\* StartSequenceAcquisition(numImages, interval_ms, stopOnOverflow):
\* if (IsCapturing()) return DEVICE_CAMERA_BUSY_ACQUIRING;   (1124-1125)
Start_check(numImages, stopOnOverflow, prepared, maxS) ==
  /\ apc = "idle"
  /\ IF IsCapturing
       THEN /\ apiRet' = "DEVICE_CAMERA_BUSY_ACQUIRING"
            /\ UNCHANGED <<apc, aNum, aOverflow, imageCounter_>>
       ELSE Start_prepare(numImages, stopOnOverflow, prepared, maxS)
  /\ UNCHANGED <<stopOnOverflow_, imgPixelsLock_>>
  /\ UNCHANGED <<globals, thd, prod, work, env>>
  /\ UNCHANGED <<config, synth>>

\* ImageBufferWithHeader[0] = malloc(..); [1] = malloc(..);
\* processedImage = malloc(..); imageNumber[0] = -1;   (1155-1159)
Start_alloc ==
  /\ apc = "start_alloc"
  /\ bufState' = "alloc"
  /\ bufPix' = [i \in Slots |-> Junk]
  /\ imageNumber' = [imageNumber EXCEPT ![0] = -1]
  /\ recFrame' = [recFrame EXCEPT ![0] = Junk]
  /\ apc' = "start_live"
  /\ UNCHANGED <<lastImageRead, bufferMutex, imageCount, mtx,
                 newImageAvailable, liveOn>>
  /\ UNCHANGED <<aNum, aOverflow, apiRet>>
  /\ UNCHANGED <<sunk, acqFinished, stopRequested, sinkRefused>>
  /\ UNCHANGED <<camera, thd, prod, work>>
  /\ UNCHANGED <<config, synth>>

\* imageNumber[1] = -1; McammGetIPInfo(.. &LiveCallback ..);
\* McammStartContinuousAcquisition(0, 15, NULL);   (1160-1183)
Start_live ==
  /\ apc = "start_live"
  /\ imageNumber' = [imageNumber EXCEPT ![1] = -1]
  /\ recFrame' = [recFrame EXCEPT ![1] = Junk]
  /\ liveOn' = TRUE
  /\ apc' = "start_thd"
  /\ UNCHANGED <<lastImageRead, bufferMutex, imageCount, mtx,
                 newImageAvailable, bufPix, bufState>>
  /\ UNCHANGED <<aNum, aOverflow, apiRet>>
  /\ UNCHANGED <<sunk, acqFinished, stopRequested, sinkRefused>>
  /\ UNCHANGED <<camera, thd, prod, work>>
  /\ UNCHANGED <<config, synth>>

\* thd_->Start(numImages, interval_ms): ZeissAcquisitionThread::Start
\* (1508-1522) sets the run's fields under stopLock_ and suspendLock_ and
\* activate() creates one more thread that runs svc.
Start_thread ==
  /\ apc = "start_thd"
  /\ numImages_' = aNum
  /\ thd_imageCounter_' = 0
  /\ stop_' = FALSE
  /\ suspend_' = FALSE
  /\ nActivated' = nActivated + 1
  /\ wpc' = [wpc EXCEPT ![nActivated + 1] = "loop"]
  /\ apc' = "start_flag"
  /\ UNCHANGED <<lockNum, bufferWithHeader, ret, wPix, wSeq, wExp>>
  /\ UNCHANGED <<aNum, aOverflow, apiRet>>
  /\ UNCHANGED <<globals, camera, prod, env>>
  /\ UNCHANGED <<config, synth>>

\* stopOnOverflow_ = stopOnOverflow; return DEVICE_OK;   (1188-1189)
Start_flag ==
  /\ apc = "start_flag"
  /\ stopOnOverflow_' = aOverflow
  /\ apiRet' = "DEVICE_OK"
  /\ apc' = "idle"
  /\ aNum' = 0
  /\ aOverflow' = FALSE
  /\ UNCHANGED <<imageCounter_, imgPixelsLock_>>
  /\ UNCHANGED <<globals, thd, prod, work, env>>
  /\ UNCHANGED <<config, synth>>

StartSequenceAcquisition ==
  \/ \E n \in Counts, o \in BOOLEAN, prepared \in BOOLEAN :
        Start_check(n, o, prepared, MaxStarts)
  \/ Start_alloc
  \/ Start_live
  \/ Start_thread
  \/ Start_flag

\* StopSequenceAcquisition: error = McammStopContinuousAcquisition(0); (1201)
Stop_live ==
  /\ apc = "idle"
  /\ liveOn' = FALSE
  /\ stopRequested' = TRUE
  /\ apc' = "stop_thd"
  /\ apiRet' = "none"
  /\ UNCHANGED <<imageNumber, lastImageRead, bufferMutex, imageCount, mtx,
                 newImageAvailable, bufPix, bufState>>
  /\ UNCHANGED <<aNum, aOverflow>>
  /\ UNCHANGED <<sunk, recFrame, acqFinished, sinkRefused>>
  /\ UNCHANGED <<camera, thd, prod, work>>
  /\ UNCHANGED <<config, synth>>

\* if (!thd_->IsStopped()) { thd_->Stop(); //thd_->wait(); }  (1204-1207)
\* ZeissAcquisitionThread::Stop sets stop_ (1503-1506); nothing waits for
\* the worker.
Stop_thread ==
  /\ apc = "stop_thd"
  /\ stop_' = TRUE
  /\ apc' = "stop_free"
  /\ UNCHANGED <<suspend_, numImages_, thd_imageCounter_, nActivated>>
  /\ UNCHANGED <<aNum, aOverflow, apiRet>>
  /\ UNCHANGED <<globals, camera, prod, work, env>>
  /\ UNCHANGED <<config, synth>>

\* free(ImageBufferWithHeader[0]); free(ImageBufferWithHeader[1]);
\* free(processedImage); return DEVICE_OK;   (1210-1215)
\* The pointers are not reset: before the first Start they are null (free
\* does nothing), afterwards they keep pointing to the released blocks.
Stop_free ==
  /\ apc = "stop_free"
  /\ bufState' = IF bufState = "null" THEN "null" ELSE "freed"
  /\ bufPix' = [i \in Slots |-> Junk]
  /\ apiRet' = "DEVICE_OK"
  /\ apc' = "idle"
  /\ UNCHANGED <<imageNumber, lastImageRead, bufferMutex, imageCount, mtx,
                 newImageAvailable, liveOn>>
  /\ UNCHANGED <<aNum, aOverflow>>
  /\ UNCHANGED <<camera, thd, prod, work, env>>
  /\ UNCHANGED <<config, synth>>

StopSequenceAcquisition ==
  \/ Stop_live
  \/ Stop_thread
  \/ Stop_free

\* ======================================================================
\* Property handlers (MM::AfterSet), called from the application thread
\* ======================================================================
\* img_.Resize(w, h, d)
Resize(w, h, d) == [Width |-> w, Height |-> h, Depth |-> d]

\* What GetProperty(MM::g_Keyword_PixelType, buf) yields: OnPixelType with
\* MM::BeforeGet derives the value from GetImageBytesPerPixel()  (1750-1765)
PixelTypeProperty(img) == IF img.Depth = 2 THEN "16bit" ELSE "8bit"

\* The handler returns r and changes nothing.
Refuse(r) ==
  /\ propRet' = r
  /\ UNCHANGED <<bitDepth_, nComponents_, binSize_, cameraCCDXSize_,
                 cameraCCDYSize_, img_>>

PixelTypes == {"8bit", "16bit", "32bit"}

\* XZellZeissCamera::OnPixelType, case MM::AfterSet  (1711-1747)
OnPixelType(pixelType) ==
  /\ apc = "idle"
  /\ IF IsCapturing
       THEN Refuse("DEVICE_CAMERA_BUSY_ACQUIRING")
       ELSE /\ nComponents_' = 1
            /\ img_' = Resize(img_.Width, img_.Height,
                              IF pixelType = "16bit" THEN 2 ELSE 1)
            /\ bitDepth_' = IF pixelType = "16bit" THEN 16 ELSE 8
            /\ propRet' = IF pixelType \in {"8bit", "16bit"}
                             THEN "DEVICE_OK" ELSE "ERR_UNKNOWN_MODE"
            /\ UNCHANGED <<binSize_, cameraCCDXSize_, cameraCCDYSize_>>
  /\ UNCHANGED <<globals, camera, thd, prod, work, api, env, synth>>

BitDepths == {8, 9, 10, 11, 12, 14, 16, 32}

\* switch (bitDepth) of OnBitDepth: bytesPerComponent  (1790-1834)
BytesPerComponent(bitDepth) ==
  IF bitDepth \in {10, 11, 12, 14, 16} THEN 2
  ELSE IF bitDepth = 32 THEN 4 ELSE 1

\* XZellZeissCamera::OnBitDepth, case MM::AfterSet  (1775-1864).
\* With the pixel type "8bit" and two bytes per component the handler sets
\* the PixelType property to "16bit", which runs OnPixelType (bitDepth_
\* becomes 16).  "32bit" is not among the allowed values of PixelType
\* (412-413); whether the property layer then runs OnPixelType (taken:
\* its default branch sets bitDepth_ to 8) is decided outside this file.
OnBitDepth(bitDepth, taken) ==
  /\ apc = "idle"
  /\ IF IsCapturing
       THEN Refuse("DEVICE_CAMERA_BUSY_ACQUIRING")
       ELSE LET known == bitDepth \in (BitDepths \ {9})
                bpc == BytesPerComponent(bitDepth)
                was8 == PixelTypeProperty(img_) = "8bit"
                bytesPerPixel == IF was8 THEN bpc ELSE 2
            IN  /\ bitDepth_' = IF was8 /\ bpc = 2 THEN 16
                                ELSE IF was8 /\ bpc = 4 /\ taken THEN 8
                                ELSE IF known THEN bitDepth ELSE 8
                /\ nComponents_' = IF was8 /\ (bpc = 2 \/ (bpc = 4 /\ taken))
                                     THEN 1 ELSE nComponents_
                /\ img_' = Resize(img_.Width, img_.Height, bytesPerPixel)
                /\ propRet' = IF known THEN "DEVICE_OK" ELSE "ERR_UNKNOWN_MODE"
                /\ UNCHANGED <<binSize_, cameraCCDXSize_, cameraCCDYSize_>>
  /\ UNCHANGED <<globals, camera, thd, prod, work, api, env, synth>>

\* binValues of SetAllowedBinning  (1045-1048)
BinValues == {1, 2}

\* int XZellZeissCamera::ResizeImageBuffer()  (2258-2284) with binning b
ResizeImageBuffer(b) ==
  Resize(cameraCCDXSize_ \div b, cameraCCDYSize_ \div b,
         IF PixelTypeProperty(img_) = "16bit" THEN 2 ELSE 1)

\* OnBinning without the test of IsCapturing().
OnBinning_unchecked(binSize) ==
  /\ apc = "idle"
  /\ binSize_' = binSize
  /\ img_' = ResizeImageBuffer(binSize)
  /\ propRet' = "DEVICE_OK"
  /\ UNCHANGED <<bitDepth_, nComponents_, cameraCCDXSize_, cameraCCDYSize_>>
  /\ UNCHANGED <<globals, camera, thd, prod, work, api, env, synth>>

\* XZellZeissCamera::OnBinning, case MM::AfterSet  (1643-1668)
OnBinning(binSize) ==
  /\ apc = "idle"
  /\ IF IsCapturing
       THEN Refuse("DEVICE_CAMERA_BUSY_ACQUIRING")
       ELSE /\ binSize_' = binSize
            /\ img_' = ResizeImageBuffer(binSize)
            /\ propRet' = "DEVICE_OK"
            /\ UNCHANGED <<bitDepth_, nComponents_, cameraCCDXSize_,
                           cameraCCDYSize_>>
  /\ UNCHANGED <<globals, camera, thd, prod, work, api, env, synth>>

\* long XZellZeissCamera::GetImageBufferSize() const  (883-887): the product
\* of three unsigned (32-bit) values.  A value is written as its two 16-bit
\* halves, and the product of the area and the depth is reduced modulo 2^32.
GetImageBufferSize ==
  LET area == img_.Width * img_.Height
      low  == (area % (2 ^ 16)) * img_.Depth
      high == (area \div (2 ^ 16)) * img_.Depth + low \div (2 ^ 16)
  IN  [hi |-> high % (2 ^ 16), lo |-> low % (2 ^ 16)]

\* Values tried for the CCD size: around both limits and the defaults.
CCDValues == {0, MinCCDSize - 1, MinCCDSize, DefaultCCDYSize,
              DefaultCCDXSize, MaxCCDSize, MaxCCDSize + 1}

\* OnCameraCCDXSize with the member assigned before the value is validated.
OnCameraCCDXSize_assignFirst(value) ==
  /\ apc = "idle"
  /\ cameraCCDXSize_' = value
  /\ IF (value < MinCCDSize) \/ (MaxCCDSize < value)
       THEN /\ propRet' = "DEVICE_ERR"
            /\ UNCHANGED img_
       ELSE /\ img_' = [img_ EXCEPT !.Width = value \div binSize_,
                                    !.Height = cameraCCDYSize_ \div binSize_]
            /\ propRet' = "DEVICE_OK"
  /\ UNCHANGED <<bitDepth_, nComponents_, binSize_, cameraCCDYSize_>>
  /\ UNCHANGED <<globals, camera, thd, prod, work, api, env, synth>>

\* XZellZeissCamera::OnCameraCCDXSize, MM::AfterSet  (2046-2065);
\* img_.Resize(w, h) keeps the depth.
OnCameraCCDXSize(value) ==
  /\ apc = "idle"
  /\ IF (value < MinCCDSize) \/ (MaxCCDSize < value)
       THEN Refuse("DEVICE_ERR")
       ELSE /\ cameraCCDXSize_' = value
            /\ img_' = IF value # cameraCCDXSize_
                         THEN [img_ EXCEPT
                                 !.Width = value \div binSize_,
                                 !.Height = cameraCCDYSize_ \div binSize_]
                         ELSE img_
            /\ propRet' = "DEVICE_OK"
            /\ UNCHANGED <<bitDepth_, nComponents_, binSize_,
                           cameraCCDYSize_>>
  /\ UNCHANGED <<globals, camera, thd, prod, work, api, env, synth>>

\* XZellZeissCamera::OnCameraCCDYSize, MM::AfterSet  (2068-2087)
OnCameraCCDYSize(value) ==
  /\ apc = "idle"
  /\ IF (value < MinCCDSize) \/ (MaxCCDSize < value)
       THEN Refuse("DEVICE_ERR")
       ELSE /\ cameraCCDYSize_' = value
            /\ img_' = IF value # cameraCCDYSize_
                         THEN [img_ EXCEPT
                                 !.Width = cameraCCDXSize_ \div binSize_,
                                 !.Height = value \div binSize_]
                         ELSE img_
            /\ propRet' = "DEVICE_OK"
            /\ UNCHANGED <<bitDepth_, nComponents_, binSize_,
                           cameraCCDXSize_>>
  /\ UNCHANGED <<globals, camera, thd, prod, work, api, env, synth>>

\* ======================================================================
\* Synthetic image  (XZellZeissCam.cpp:2286-2748)
\* ======================================================================
\* A pixel holds a number, the value the sine formula gives at an index
\* (2391, 2424), or the largest value that formula drew (maxDrawnVal).
Num(n) == [kind |-> "num", v |-> n]
Wave(i) == [kind |-> "wave", v |-> i]
MaxDrawn == [kind |-> "maxDrawn", v |-> -1]

\* Bytes of one pixel of the buffer a branch of the generator writes:
\* unsigned char for "8bit", unsigned short for "16bit".
StorageBytes(pixelType) == IF pixelType = "16bit" THEN 2 ELSE 1

\* static_cast<unsigned char>(n), static_cast<unsigned short>(n) of an integer
Stored(n, bytes) == n % (2 ^ (8 * bytes))

\* *(pBuf + imgWidth * row + col) = val, one write after the other; p holds
\* the elements of the buffer, element i at p[i + 1]: an element keeps the
\* value of the last write that names it.  A write behind the last
\* element does not reach a pixel.
Store(p, w, writes) ==
  [i \in 1 .. Len(p) |->
     LET hits == {n \in 1 .. Len(writes) :
                    (w * writes[n].row) + writes[n].col = i - 1}
     IN  IF hits = {} THEN p[i]
         ELSE writes[CHOOSE n \in hits : \A m \in hits : m <= n].val]

\* Some write goes behind the last element of the buffer.
Overrun(w, h, writes) ==
  \E n \in 1 .. Len(writes) : (w * writes[n].row) + writes[n].col >= w * h

\* The positions a sequence of writes names.
Positions(writes) ==
  {<<writes[n].row, writes[n].col>> : n \in 1 .. Len(writes)}

\* The base loop of the sine branches (2385-2397, 2419-2431): every pixel,
\* row by row.
BaseWrites(w, h) ==
  [n \in 1 .. w * h |->
     [row |-> (n - 1) \div w, col |-> (n - 1) % w, val |-> Wave(n - 1)]]

\* pixelsToDrop, pixelsToSaturate  (2372-2377):
\* (long)(0.5 + fractionOfPixelsToDropOrSaturate_ * img.Height() * imgWidth)
PixelsToForce(enabled, w, h) ==
  IF enabled
    THEN (500 + (fractionOfPixelsToDropOrSaturate_ * h * w)) \div 1000
    ELSE 0

\* Values of rand() tried: both ends of 0 .. RAND_MAX.
RandValues == {0, RAND_MAX}

\* The row or column drawn for a forced pixel.  8bit (2399-2400):
\* (unsigned)((double)(size - 1) * rand() / RAND_MAX); 16bit (2435-2436):
\* (unsigned)(0.5 + (double)size * rand() / RAND_MAX).
RandomIndex(pixelType, size, r) ==
  IF pixelType = "8bit"
    THEN ((size - 1) * r) \div RAND_MAX
    ELSE ((2 * size * r) + RAND_MAX) \div (2 * RAND_MAX)

\* The writes of a saturate or drop loop (2397-2410, 2433-2445) for the
\* draws <<rand() for j, rand() for k>> of its iterations.
FaultWrites(pixelType, w, h, draws, val) ==
  [n \in 1 .. Len(draws) |->
     [row |-> RandomIndex(pixelType, h, draws[n][1]),
      col |-> RandomIndex(pixelType, w, draws[n][2]),
      val |-> val]]

\* SEVEN_SEGMENT_RULES, _HORIZONTALITY, _X_OFFSET, _Y_OFFSET
\* (XZellZeissCam.h:54-62), for digit + 1 and segment + 1.
SEVEN_SEGMENT_RULES == <<119, 36, 93, 109, 46, 107, 122, 37, 127, 111>>
SEVEN_SEGMENT_HORIZONTALITY == <<1, 0, 0, 1, 0, 0, 1>>
SEVEN_SEGMENT_X_OFFSET == <<0, 0, 1, 0, 0, 1, 0>>
SEVEN_SEGMENT_Y_OFFSET == <<0, 0, 0, 1, 1, 1, 2>>

\* while (imageCounter_ / divisor > 0) { divisor *= 10; numDigits += 1; }
RECURSIVE NumDigits(_)
NumDigits(n) == IF n > 0 THEN 1 + NumDigits(n \div 10) ELSE 0

\* Black out the background for one digit  (2468-2483): 20 x 20 pixels
\* from (xBase, 2), column by column.
BlockWrites(xBase) ==
  [n \in 1 .. 400 |->
     [row |-> 2 + ((n - 1) % 20), col |-> xBase + ((n - 1) \div 20),
      val |-> Num(0)]]

\* Draw one segment of a digit  (2485-2508); nothing when the rule of the
\* digit leaves the segment out.
SegmentWrites(xBase, digit, segment) ==
  LET xStep == SEVEN_SEGMENT_HORIZONTALITY[segment + 1]
      yStep == (xStep + 1) % 2
      xStart == xBase + (SEVEN_SEGMENT_X_OFFSET[segment + 1] * 16)
      yStart == 2 + (SEVEN_SEGMENT_Y_OFFSET[segment + 1] * 8) + 1
  IN  IF (SEVEN_SEGMENT_RULES[digit + 1] \div (2 ^ segment)) % 2 = 0
        THEN <<>>
        ELSE [n \in 1 .. 8 * (xStep + 1) |->
                [row |-> yStart + ((n - 1) * yStep),
                 col |-> xStart + ((n - 1) * xStep),
                 val |-> MaxDrawn]]

RECURSIVE SegmentsFrom(_, _, _)
SegmentsFrom(xBase, digit, segment) ==
  IF segment > 6 THEN <<>>
  ELSE SegmentWrites(xBase, digit, segment)
         \o SegmentsFrom(xBase, digit, segment + 1)

\* The seven-segment display of the image number  (2449-2512): digit i of
\* numDigits is the i-th from the right of the number.
RECURSIVE OverlayFrom(_, _, _)
OverlayFrom(i, numDigits, remainder) ==
  IF i >= numDigits THEN <<>>
  ELSE LET xBase == ((numDigits - i - 1) * 20) + 2
       IN  BlockWrites(xBase)
             \o SegmentsFrom(xBase, remainder % 10, 0)
             \o OverlayFrom(i + 1, numDigits, remainder \div 10)

OverlayWrites ==
  IF shouldDisplayImageNumber_
    THEN OverlayFrom(0, NumDigits(imageCounter_), imageCounter_)
    ELSE <<>>

\* shouldKeep of the multi-ROI mask  (2524-2538) for column i and row j.
\* xOffset = multiROIXs_[k] - roiX_ is unsigned: for a rectangle left of
\* (above) the origin it wraps to a value no column (row) reaches.
ShouldKeep(i, j) ==
  \E k \in 1 .. Len(multiROI) :
    /\ multiROI[k].x >= roiX_
    /\ multiROI[k].y >= roiY_
    /\ i >= multiROI[k].x - roiX_
    /\ i < multiROI[k].x - roiX_ + multiROI[k].w
    /\ j >= multiROI[k].y - roiY_
    /\ j < multiROI[k].y - roiY_ + multiROI[k].h

\* Blank out all pixels that are not in an ROI  (2513-2558).
MaskWrites(pixelType, w, h) ==
  IF multiROI = <<>> THEN <<>>
  ELSE SelectSeq(
         [n \in 1 .. w * h |->
            [row |-> (n - 1) % h, col |-> (n - 1) \div h,
             val |-> Num(Stored(multiROIFillValue_,
                                StorageBytes(pixelType)))]],
         LAMBDA wr : ~ShouldKeep(wr.col, wr.row))

\* GenerateColorTestPattern  (2563-2633): row 0 holds
\* maxVal * (x + 1) / (width - 1) in the storage type, the other rows copy
\* it; the four-byte pattern is kept as a value of its own per pixel.
GenerateColorTestPattern(w, h, depth) ==
  [n \in 1 .. w * h |->
     IF depth \in {1, 2}
       THEN Num(Stored(((2 ^ (8 * depth) - 1) * (((n - 1) % w) + 1))
                         \div (w - 1), depth))
       ELSE [kind |-> "rgb", v |-> n - 1]]

\* (unsigned char) value, (unsigned short) value of a double that is not
\* negative: the value when the type holds it; otherwise the conversion
\* is undefined, and a build wraps or saturates.
Converted(value, bytes) ==
  IF value < 2 ^ (8 * bytes)
    THEN {value}
    ELSE {value % (2 ^ (8 * bytes)), 2 ^ (8 * bytes) - 1}

\* if (value < 0) value = 0; else if (value > maxValue) value = maxValue;
Clamp(value, maxValue) ==
  IF value < 0 THEN 0 ELSE IF value > maxValue THEN maxValue ELSE value

\* AddBackgroundAndNoise  (2650-2692): what one pixel can hold for the
\* value GaussDistributedValue returned; maxValue = 1 << GetBitDepth().
AddBackgroundAndNoise(pixelType, value) ==
  Converted(Clamp(value, 2 ^ bitDepth_), StorageBytes(pixelType))

\* AddSignal  (2702-2748): the pixel plus the value GaussDistributedValue
\* returned; maxValue = (1 << GetBitDepth()) - 1.
AddSignal(pixelType, pixel, value) ==
  Converted(Clamp(pixel + value, 2 ^ bitDepth_ - 1), StorageBytes(pixelType))

\* Values of GaussDistributedValue tried (whole numbers): below zero, in
\* range, and above the range of 8, 12 and 16 bits.
GaussValues == {-3, 10, 300, 5000, 70000}

\* The generator can be followed: the image has at most MaxPixels pixels
\* and more than one column (the colour test divides by width - 1), and
\* 1 << bitDepth_ is defined.
CanSynthesise ==
  /\ apc = "idle"
  /\ synthRet # "crashed"
  /\ imgPixelsLock_ = NoOwner
  /\ img_.Width > 1
  /\ img_.Width * img_.Height <= MaxPixels
  /\ bitDepth_ <= 16
  /\ synthCalls < MaxSnaps

\* What RunSequenceOnThread (1265-1297) leaves: the image of
\* GenerateSyntheticImage, and imageCounter_++ of InsertImage() (1234)
\* unless a write behind the buffer ended the process.
Synthesised(p, b, writes, inj, nz) ==
  /\ pix' = p
  /\ base' = b
  /\ written' = Positions(writes)
  /\ injected' = inj
  /\ noise' = nz
  /\ synthCalls' = synthCalls + 1
  /\ synthRet' \in IF Overrun(img_.Width, img_.Height, writes)
                     THEN {"returned", "crashed"}
                     ELSE {"returned"}
  /\ imageCounter_' = IF synthRet' = "returned"
                        THEN imageCounter_ + 1 ELSE imageCounter_
  /\ UNCHANGED <<stopOnOverflow_, imgPixelsLock_, mode_, dropPixels_,
                 saturatePixels_, fractionOfPixelsToDropOrSaturate_,
                 shouldDisplayImageNumber_, multiROIFillValue_, multiROI,
                 roiX_, roiY_>>
  /\ UNCHANGED <<globals, thd, prod, work, api, env, config>>

\* No position was forced.
NoFaults == [sat |-> <<>>, drop |-> <<>>]

\* GenerateSyntheticImage, mode_ == MODE_NOISE  (2316-2332): background
\* and signal, then return.  g1 and g2 are the values drawn for the
\* background and for the signal, the same for every pixel.
GenerateSyntheticImage_noise(g1, g2) ==
  /\ CanSynthesise
  /\ mode_ = "MODE_NOISE"
  /\ LET w == img_.Width
         h == img_.Height
         pixelType == PixelTypeProperty(img_)
     IN  \E b \in AddBackgroundAndNoise(pixelType, g1) :
           \E s \in AddSignal(pixelType, b, g2) :
             Synthesised([n \in 1 .. w * h |-> Num(s)],
                         [n \in 1 .. w * h |-> Num(s)],
                         BaseWrites(w, h), NoFaults,
                         [background |-> g1, stored |-> b, signal |-> g2])

\* GenerateSyntheticImage, mode_ == MODE_COLOR_TEST  (2333-2337): the
\* pattern function handles every depth the buffer takes, then return.
GenerateSyntheticImage_colorTest ==
  /\ CanSynthesise
  /\ mode_ = "MODE_COLOR_TEST"
  /\ LET p == GenerateColorTestPattern(img_.Width, img_.Height, img_.Depth)
     IN  Synthesised(p, p, BaseWrites(img_.Width, img_.Height), NoFaults,
                     <<>>)

\* GenerateSyntheticImage, the sine pattern  (2339-2560): base pattern,
\* saturated pixels, dropped pixels, image number, multi-ROI mask.
GenerateSyntheticImage_waves(satDraws, dropDraws) ==
  /\ CanSynthesise
  /\ mode_ = "MODE_ARTIFICIAL_WAVES"
  /\ LET w == img_.Width
         h == img_.Height
         pixelType == PixelTypeProperty(img_)
         maxValue == 2 ^ bitDepth_ - 1
         empty == [n \in 1 .. w * h |-> Num(0)]
         sat == FaultWrites(pixelType, w, h, satDraws,
                            Num(Stored(maxValue, StorageBytes(pixelType))))
         drop == FaultWrites(pixelType, w, h, dropDraws, Num(0))
     IN  /\ Len(satDraws) = PixelsToForce(saturatePixels_, w, h)
         /\ Len(dropDraws) = PixelsToForce(dropPixels_, w, h)
         /\ \E writes \in {BaseWrites(w, h) \o sat \o drop \o OverlayWrites
                              \o MaskWrites(pixelType, w, h)} :
              Synthesised(Store(empty, w, writes),
                          Store(empty, w, BaseWrites(w, h)),
                          writes,
                          [sat |-> [n \in 1 .. Len(sat) |->
                                      <<sat[n].row, sat[n].col>>],
                           drop |-> [n \in 1 .. Len(drop) |->
                                       <<drop[n].row, drop[n].col>>]],
                          <<>>)

\* The draws of up to n iterations of a fault loop.
Draws(n) == UNION {[1 .. m -> RandValues \X RandValues] : m \in 0 .. n}

\* XZellZeissCamera::RunSequenceOnThread  (1265-1297), fastImage_ false.
RunSequenceOnThread ==
  \/ \E g1 \in GaussValues, g2 \in GaussValues :
       GenerateSyntheticImage_noise(g1, g2)
  \/ GenerateSyntheticImage_colorTest
  \/ \E satDraws \in Draws(MaxForced), dropDraws \in Draws(MaxForced) :
       GenerateSyntheticImage_waves(satDraws, dropDraws)

\* A handler of a synthesis property or of the ROI has returned DEVICE_OK.
Configured ==
  /\ apc = "idle"
  /\ synthRet # "crashed"
  /\ UNCHANGED <<pix, base, written, injected, noise, synthRet, synthCalls>>
  /\ UNCHANGED <<globals, camera, thd, prod, work, api, env>>

\* XZellZeissCamera::OnMode, MM::AfterSet  (2163-2179)
OnMode(val) ==
  /\ Configured
  /\ mode_' = IF val = "Noise" THEN "MODE_NOISE"
              ELSE IF val = "Color Test Pattern" THEN "MODE_COLOR_TEST"
              ELSE "MODE_ARTIFICIAL_WAVES"
  /\ propRet' = "DEVICE_OK"
  /\ UNCHANGED <<dropPixels_, saturatePixels_,
                 fractionOfPixelsToDropOrSaturate_,
                 shouldDisplayImageNumber_, multiROIFillValue_, multiROI,
                 roiX_, roiY_, bitDepth_, nComponents_, binSize_,
                 cameraCCDXSize_, cameraCCDYSize_, img_>>

\* XZellZeissCamera::OnDropPixels, MM::AfterSet  (1898-1903)
OnDropPixels(tvalue) ==
  /\ Configured
  /\ dropPixels_' = (tvalue # 0)
  /\ propRet' = "DEVICE_OK"
  /\ UNCHANGED <<mode_, saturatePixels_, fractionOfPixelsToDropOrSaturate_,
                 shouldDisplayImageNumber_, multiROIFillValue_, multiROI,
                 roiX_, roiY_, bitDepth_, nComponents_, binSize_,
                 cameraCCDXSize_, cameraCCDYSize_, img_>>

\* XZellZeissCamera::OnSaturatePixels, MM::AfterSet  (1930-1935)
OnSaturatePixels(tvalue) ==
  /\ Configured
  /\ saturatePixels_' = (tvalue # 0)
  /\ propRet' = "DEVICE_OK"
  /\ UNCHANGED <<mode_, dropPixels_, fractionOfPixelsToDropOrSaturate_,
                 shouldDisplayImageNumber_, multiROIFillValue_, multiROI,
                 roiX_, roiY_, bitDepth_, nComponents_, binSize_,
                 cameraCCDXSize_, cameraCCDYSize_, img_>>

\* XZellZeissCamera::OnFractionOfPixelsToDropOrSaturate, MM::AfterSet
\* (1946-1951), the value in thousandths
OnFractionOfPixelsToDropOrSaturate(tvalue) ==
  /\ Configured
  /\ fractionOfPixelsToDropOrSaturate_' = tvalue
  /\ propRet' = "DEVICE_OK"
  /\ UNCHANGED <<mode_, dropPixels_, saturatePixels_,
                 shouldDisplayImageNumber_, multiROIFillValue_, multiROI,
                 roiX_, roiY_, bitDepth_, nComponents_, binSize_,
                 cameraCCDXSize_, cameraCCDYSize_, img_>>

\* XZellZeissCamera::OnShouldDisplayImageNumber, MM::AfterSet  (1978-1983)
OnShouldDisplayImageNumber(tvalue) ==
  /\ Configured
  /\ shouldDisplayImageNumber_' = (tvalue # 0)
  /\ propRet' = "DEVICE_OK"
  /\ UNCHANGED <<mode_, dropPixels_, saturatePixels_,
                 fractionOfPixelsToDropOrSaturate_, multiROIFillValue_,
                 multiROI, roiX_, roiY_, bitDepth_, nComponents_, binSize_,
                 cameraCCDXSize_, cameraCCDYSize_, img_>>

\* XZellZeissCamera::OnMultiROIFillValue, MM::AfterSet  (2008-2013)
OnMultiROIFillValue(tvalue) ==
  /\ Configured
  /\ multiROIFillValue_' = tvalue
  /\ propRet' = "DEVICE_OK"
  /\ UNCHANGED <<mode_, dropPixels_, saturatePixels_,
                 fractionOfPixelsToDropOrSaturate_,
                 shouldDisplayImageNumber_, multiROI, roiX_, roiY_,
                 bitDepth_, nComponents_, binSize_, cameraCCDXSize_,
                 cameraCCDYSize_, img_>>

\* XZellZeissCamera::SetROI  (910-931): the multiple ROIs are cleared; a
\* size of 0 x 0 clears the ROI, another size crops the buffer.
SetROI(x, y, xSize, ySize) ==
  /\ Configured
  /\ multiROI' = <<>>
  /\ IF xSize = 0 /\ ySize = 0
       THEN /\ img_' = ResizeImageBuffer(binSize_)
            /\ roiX_' = 0
            /\ roiY_' = 0
       ELSE /\ img_' = Resize(xSize, ySize, img_.Depth)
            /\ roiX_' = x
            /\ roiY_' = y
  /\ UNCHANGED <<mode_, dropPixels_, saturatePixels_,
                 fractionOfPixelsToDropOrSaturate_,
                 shouldDisplayImageNumber_, multiROIFillValue_, bitDepth_,
                 nComponents_, binSize_, cameraCCDXSize_, cameraCCDYSize_,
                 propRet>>

\* XZellZeissCamera::SetMultiROI  (declared XZellZeissCam.h:139-141, its
\* body is not part of the sources): the rectangles are stored, their
\* coordinates relative to the origin of the last single ROI.
SetMultiROI(rects) ==
  /\ Configured
  /\ multiROI' = rects
  /\ UNCHANGED <<mode_, dropPixels_, saturatePixels_,
                 fractionOfPixelsToDropOrSaturate_,
                 shouldDisplayImageNumber_, multiROIFillValue_, roiX_,
                 roiY_, config>>

\* ======================================================================
\* The whole program
\* ======================================================================
Next ==
  \/ StartSequenceAcquisition
  \/ StopSequenceAcquisition
  \/ \E p \in Producers : LiveCallback(p, MaxFrames)
  \/ \E w \in Workers : svc(w)

Spec == Init /\ [][Next]_vars

\* One unbounded run (StartSequenceAcquisition(interval), 1110-1114) that is
\* never stopped, with a sink that accepts every frame, and RaceFrames
\* callbacks on two contexts.
NextRace ==
  \/ (nActivated = 0 /\ Start_check(LONG_MAX, FALSE, TRUE, MaxStarts))
  \/ Start_alloc
  \/ Start_live
  \/ Start_thread
  \/ Start_flag
  \/ \E p \in Producers : LiveCallback(p, RaceFrames)
  \/ \E w \in Workers :
       \/ Move_enter(w)
       \/ Move_lockPixels(w)
       \/ Move_wait(w)
       \/ Move_scan(w)
       \/ Move_tryLock(w)
       \/ Move_unlock(w)
       \/ Move_flag(w)
       \/ Move_copyBegin(w)
       \/ Move_copyEnd(w)
       \/ Move_insert(w, "DEVICE_OK", FALSE)
       \/ svc_while(w)
       \/ svc_stop(w)
       \/ OnThreadExiting(w)

SpecRace == Init /\ [][NextRace]_vars

\* The worker's steps with a sink that accepts every frame.
svc_accepting(w) ==
  \/ Move_enter(w)
  \/ Move_lockPixels(w)
  \/ Move_wait(w)
  \/ Move_scan(w)
  \/ Move_tryLock(w)
  \/ Move_unlock(w)
  \/ Move_flag(w)
  \/ Move_copyBegin(w)
  \/ Move_copyEnd(w)
  \/ Move_insert(w, "DEVICE_OK", FALSE)
  \/ svc_while(w)
  \/ svc_stop(w)
  \/ OnThreadExiting(w)

\* Start, Stop, Start again: the first run is stopped (once or several
\* times), the second run is left alone; the sink accepts every frame and
\* the frames come on one callback context.
NextRestart ==
  \/ \E n \in 1 .. MaxCount : Start_check(n, FALSE, TRUE, MaxRuns)
  \/ Start_alloc
  \/ Start_live
  \/ Start_thread
  \/ Start_flag
  \/ (nActivated = 1 /\ Stop_live)
  \/ Stop_thread
  \/ Stop_free
  \/ LiveCallback(101, RestartFrames)
  \/ \E w \in Workers : svc_accepting(w) \/ Move_fault(w)

SpecRestart == Init /\ [][NextRestart]_vars

\* One run of 1 .. MaxCount frames with stopOnOverflow = false that is never
\* stopped; the sink accepts a frame or reports overflow, and accepts every
\* retry.
NextOverflow ==
  \/ \E n \in 1 .. MaxCount : Start_check(n, FALSE, TRUE, MaxStarts)
  \/ Start_alloc
  \/ Start_live
  \/ Start_thread
  \/ Start_flag
  \/ LiveCallback(101, OverflowFrames)
  \/ \E w \in Workers :
       \/ svc_accepting(w)
       \/ Move_insert(w, "DEVICE_BUFFER_OVERFLOW", FALSE)
       \/ Move_retry(w, "DEVICE_OK")

SpecOverflow == Init /\ [][NextOverflow]_vars

\* The application configures the camera before, during and after one run
\* (no frame arrives and the worker is not scheduled meanwhile).
NextConfig ==
  \/ Start_check(1, FALSE, TRUE, MaxStarts)
  \/ Start_alloc
  \/ Start_live
  \/ Start_thread
  \/ Start_flag
  \/ StopSequenceAcquisition
  \/ \E t \in PixelTypes : OnPixelType(t)
  \/ \E b \in BitDepths, taken \in BOOLEAN : OnBitDepth(b, taken)
  \/ \E n \in BinValues : OnBinning(n)
  \/ \E v \in CCDValues : OnCameraCCDXSize(v)
  \/ \E v \in CCDValues : OnCameraCCDYSize(v)

SpecConfig == Init /\ [][NextConfig]_vars

\* ======================================================================
\* Properties
\* ======================================================================
\* C1 -- No double delivery: no frame sequence number (a value of
\* imageNumber) is accepted by the sink more than once.
NoDoubleDelivery ==
  \A i, j \in 1 .. Len(sunk) : i # j => sunk[i].seq # sunk[j].seq

\* C2 -- Monotonic delivery: within one run the sequence numbers of the
\* frames handed to the sink by successive drain steps strictly increase.
MonotonicDelivery ==
  \A i, j \in 1 .. Len(sunk) :
     (i < j /\ sunk[i].w = sunk[j].w) => sunk[i].seq < sunk[j].seq

\* C3 -- Slot mutual exclusion: from the moment the consumer has selected
\* slot i until it has finished copying the pixels out, no LiveCallback is
\* writing the backing store of slot i.
Draining(w, i) ==
  /\ wpc[w] \in {"unlock", "flag", "copy", "copying"}
  /\ bufferWithHeader[w] = i
Writing(p, i) == ppc[p] = "memcpy" /\ lockNumber[p] = i
SlotMutualExclusion ==
  \A w \in Workers, p \in Producers, i \in Slots :
     ~(Draining(w, i) /\ Writing(p, i))

\* C4 -- No frame corruption: the pixels the consumer hands to the sink
\* with sequence number n are the pixels the producer stored in the slot
\* when it recorded n.
Delivering(w) == wpc[w] \in {"insert", "retry"}
NoFrameCorruption ==
  \A w \in Workers : Delivering(w) => wPix[w] = wExp[w]

\* C5 -- The producer callback never blocks on the consumer: no LiveCallback
\* waits for a lock that the consumer holds while it delivers a frame to
\* the sink.
ProducerNeverBlocked ==
  \A p \in Producers, w \in Workers :
     ~(ppc[p] = "lockmtx" /\ mtx = w /\ Delivering(w))

\* C6 -- Re-check instead of error: a drain step that was woken and found
\* no newer frame it could lock does not end the run; without a Stop
\* request the worker does not leave the drain loop because of it.
RecheckInsteadOfError ==
  \A w \in Workers :
     (ret[w] = "DEVICE_CAMERA_BUSY_ACQUIRING" /\ ~stopRequested)
        => wpc[w] \notin {"exit", "notify"}

\* Frames of worker w's run accepted by the sink.
Delivered(w) == Cardinality({i \in 1 .. Len(sunk) : sunk[i].w = w})

\* C7 -- Bounded run length: a run started with count N >= 1, with a sink
\* that accepts every frame and no Stop request, has delivered exactly N
\* frames when its worker has finished, and the camera is then Stopped.
BoundedRunLength ==
  \A w \in Workers :
     (wpc[w] = "done" /\ ~stopRequested /\ ~sinkRefused /\ numImages_ >= 1)
        => (Delivered(w) = numImages_ /\ IsStopped)

\* C8 -- Finished notification exactly once: a worker is finished exactly
\* when AcqFinished has been invoked once for it, and it reaches the
\* notification only by the step that sets the stop flag; this holds on
\* every way out of the drain loop (count reached, Stop, sink error,
\* exception).
FinishedExactlyOnce ==
  [][\A w \in Workers :
        /\ acqFinished'[w] = (IF wpc'[w] = "done" THEN 1 ELSE 0)
        /\ (wpc[w] # "notify" /\ wpc'[w] = "notify") => stop_'
    ]_vars

\* A worker has finished after the sink refused a frame or threw.
FinishedAfterFault ==
  \E w \in Workers : wpc[w] = "done" /\ acqFinished[w] = 1 /\ sinkRefused

\* C10 -- Start while Running is rejected without effect: the call returns
\* DEVICE_CAMERA_BUSY_ACQUIRING and changes neither the counters, the
\* target count, the stop flag, the slots, the overflow policy nor the set
\* of workers.
StartWhileRunningRejected ==
  [][(IsCapturing /\ \E n \in Counts, o, prepared \in BOOLEAN :
                         Start_check(n, o, prepared, MaxStarts))
       => /\ apiRet' = "DEVICE_CAMERA_BUSY_ACQUIRING"
          /\ apc' = "idle"
          /\ UNCHANGED <<imageCounter_, thd_imageCounter_, numImages_, stop_,
                         suspend_, imageNumber, stopOnOverflow_, nActivated,
                         wpc, bufState, liveOn, lastImageRead>>
    ]_vars

\* A Start was rejected while a run with delivered frames is going on.
StartRejectedWhileRunning ==
  /\ apiRet = "DEVICE_CAMERA_BUSY_ACQUIRING"
  /\ IsCapturing
  /\ imageCounter_ > 0

\* C11 -- Restart after Stop: a StartSequenceAcquisition that follows a
\* StopSequenceAcquisition starts a run of its own, which delivers the
\* number of frames it was asked for: when the second run is over (every
\* worker has finished, nothing stopped it, the sink accepted everything)
\* the frames-delivered counter, reset by the second Start, equals the
\* requested count.
RestartDelivers ==
  (/\ nActivated = 2
   /\ apc = "idle"
   /\ \A w \in Workers : wpc[w] = "done")
     => imageCounter_ = numImages_

\* C12 -- StopSequenceAcquisition is idempotent: called a second time, or
\* with no run active, it performs no invalid operation; in particular it
\* never passes to free() a slot buffer that it has released already.
StopReleasesOnce ==
  [][Stop_free => bufState # "freed"]_vars

RequestedStopOnOverflow ==
  IF apc = "start_flag" THEN aOverflow ELSE stopOnOverflow_

\* C14 -- Stop on overflow: in a run started with stopOnOverflow = true, an
\* overflow answer of the sink is never followed by ClearImageBuffer and a
\* second InsertImage (the worker never stands before a retry), and a
\* worker that took the overflow as its result is on its way out.
StopOnOverflowNeverRetries ==
  \A w \in Workers :
     (wpc[w] # "off" /\ RequestedStopOnOverflow)
        => /\ wpc[w] # "retry"
           /\ ret[w] = "DEVICE_BUFFER_OVERFLOW"
                 => wpc[w] \in {"cond", "exit", "notify"}

\* C15 -- Continue on overflow: in a run of N frames with stopOnOverflow =
\* false in which the sink reported overflow and accepted the retry, the
\* worker leaves the drain loop with the status DEVICE_OK and with N frames
\* handed to the sink (frames-delivered counter = N).
ContinuesAfterOverflow ==
  \A w \in Workers :
     (wpc[w] = "notify" /\ sinkRefused)
        => /\ ret[w] = "DEVICE_OK"
           /\ Delivered(w) = numImages_
           /\ imageCounter_ = numImages_

\* C16 -- Cooperative stop: StopSequenceAcquisition does not touch a
\* worker's delivery; a delivery in progress while the stop flag is set
\* still runs to its end (the sink is called and its answer becomes the
\* result of the drain step); a drain step begun with the flag set returns at
\* once without a frame; the loop test with the flag set leaves the loop;
\* and a worker that has left the loop only notifies and ends, so no frame
\* reaches the sink after the worker has observed the flag.
CooperativeStop ==
  [][\A w \in Workers :
        /\ StopSequenceAcquisition => UNCHANGED <<work, sunk, imageCounter_>>
        /\ (Delivering(w) /\ IsStopped /\ wpc'[w] # wpc[w])
              => /\ wpc'[w] \in {"retry", "cond", "exit"}
                 /\ (wpc'[w] = "cond" /\ ret'[w] = "DEVICE_OK")
                       => sunk' = Append(sunk, Frame(w))
        /\ (wpc[w] = "loop" /\ IsStopped /\ wpc'[w] # "loop")
              => /\ wpc'[w] = "cond"
                 /\ ret'[w] = "DEVICE_ERR"
                 /\ sunk' = sunk
        /\ (wpc[w] = "cond" /\ IsStopped /\ wpc'[w] # "cond")
              => wpc'[w] = "exit"
        /\ (wpc[w] \in {"exit", "notify", "done"} /\ wpc'[w] # wpc[w])
              => /\ wpc'[w] \in {"notify", "done"}
                 /\ sunk' = sunk
    ]_vars

\* C17 -- The frame count is an upper bound: a run started with count N
\* never has more than N frames handed to the sink; a run started with
\* N = 0 delivers none.
CountIsUpperBound ==
  \A w \in Workers : wpc[w] # "off" => Delivered(w) <= numImages_

\* C18 -- Unbounded run: in a run started with the maximum count LONG_MAX
\* the worker leaves the drain loop only with the stop flag set after a
\* Stop request, or with a drain step that did not return DEVICE_OK (or did
\* not return at all); never because of the number of frames.
UnboundedRunEnds ==
  [][\A w \in Workers :
        (numImages_ = LONG_MAX /\ wpc[w] # wpc'[w]
                               /\ wpc'[w] \in {"exit", "crashed"})
           => \/ IsStopped /\ stopRequested
              \/ wpc[w] = "cond" /\ ret[w] # "DEVICE_OK"
              \/ wpc[w] = "insert" /\ sinkRefused'
    ]_vars

\* An unbounded run that was never stopped leaves the loop after it
\* delivered a frame.
UnboundedRunLeft ==
  \E w \in Workers :
     /\ numImages_ = LONG_MAX
     /\ wpc[w] = "exit"
     /\ Delivered(w) >= 1
     /\ ~stopRequested

\* C19 -- Configuration is frozen while Running: OnPixelType, OnBitDepth
\* and OnBinning called while IsCapturing() return the busy error and leave
\* bytes per pixel, bit depth, component count, binning and the frame
\* dimensions unchanged.
ConfigFrozenWhileRunning ==
  [][(/\ IsCapturing
      /\ \/ \E t \in PixelTypes : OnPixelType(t)
         \/ \E b \in BitDepths, taken \in BOOLEAN : OnBitDepth(b, taken)
         \/ \E n \in BinValues : OnBinning(n))
       => /\ propRet' = "DEVICE_CAMERA_BUSY_ACQUIRING"
          /\ UNCHANGED <<img_, bitDepth_, nComponents_, binSize_>>
    ]_vars

\* A format that was set before the run, and a setting refused during it.
RefusedWhileRunning ==
  /\ IsCapturing
  /\ propRet = "DEVICE_CAMERA_BUSY_ACQUIRING"
  /\ binSize_ = 2
  /\ img_.Depth = 2

\* C20 -- Invalid geometry is rejected without effect: a CCD width or
\* height below 16 or above 33000 returns an error and leaves
\* cameraCCDXSize_, cameraCCDYSize_ and the frame buffer unchanged; every
\* value from 16 to 33000 is accepted and becomes the new size.
GeometryValidated ==
  [][\A v \in CCDValues :
        /\ OnCameraCCDXSize(v)
              => IF v >= 16 /\ v <= 33000
                   THEN /\ propRet' = "DEVICE_OK"
                        /\ cameraCCDXSize_' = v
                        /\ img_'.Width = v \div binSize_
                   ELSE /\ propRet' # "DEVICE_OK"
                        /\ UNCHANGED <<cameraCCDXSize_, cameraCCDYSize_, img_>>
        /\ OnCameraCCDYSize(v)
              => IF v >= 16 /\ v <= 33000
                   THEN /\ propRet' = "DEVICE_OK"
                        /\ cameraCCDYSize_' = v
                        /\ img_'.Height = v \div binSize_
                   ELSE /\ propRet' # "DEVICE_OK"
                        /\ UNCHANGED <<cameraCCDXSize_, cameraCCDYSize_, img_>>
    ]_vars

\* An invalid size was refused after a valid one had been accepted.
InvalidSizeRefused ==
  /\ propRet = "DEVICE_ERR"
  /\ cameraCCDXSize_ = MaxCCDSize
  /\ cameraCCDYSize_ = MinCCDSize

\* C21 -- Geometry invariant: after any sequence of successful changes of
\* CCD size, binning, pixel type and bit depth the frame buffer is
\* floor(ccdWidth / binning) wide and floor(ccdHeight / binning) high, its
\* bytes per pixel is the byte size of the current pixel type (1 for 8bit,
\* 2 for 16bit, never 0), and GetImageBufferSize() is
\* width * height * bytesPerPixel.
BufferBytes ==
  LET area == img_.Width * img_.Height
      low  == (area % (2 ^ 16)) * img_.Depth
  IN  [hi |-> (area \div (2 ^ 16)) * img_.Depth + low \div (2 ^ 16),
       lo |-> low % (2 ^ 16)]

GeometryInvariant ==
  propRet \in {"none", "DEVICE_OK"}
    => /\ img_.Width = cameraCCDXSize_ \div binSize_
       /\ img_.Height = cameraCCDYSize_ \div binSize_
       /\ img_.Depth = (IF PixelTypeProperty(img_) = "16bit" THEN 2 ELSE 1)
       /\ GetImageBufferSize = BufferBytes

\* C22 -- Unknown format falls back and reports: setting a pixel type
\* other than 8bit / 16bit, or a bit depth outside {8, 10, 11, 12, 14, 16,
\* 32}, returns the unknown-format error (never OK) and leaves the camera
\* in the narrowest format: 1 byte per pixel, 1 component, bit depth 8.
UnknownFormatFallsBack ==
  [][((\E t \in PixelTypes \ {"8bit", "16bit"} : OnPixelType(t))
       \/ (\E b \in BitDepths \ {8, 10, 11, 12, 14, 16, 32},
              taken \in BOOLEAN : OnBitDepth(b, taken)))
      /\ ~IsCapturing
     => /\ propRet' = "ERR_UNKNOWN_MODE"
        /\ img_'.Depth = 1
        /\ nComponents_' = 1
        /\ bitDepth_' = 8]_vars

\* One run that is never stopped, with frames stored and drained, while the
\* geometry properties are set: the sensor width to its lower limit or its
\* default, the binning and the pixel type to their allowed values.
NextStale ==
  \/ Start_check(LONG_MAX, FALSE, TRUE, MaxStarts)
  \/ Start_alloc
  \/ Start_live
  \/ Start_thread
  \/ Start_flag
  \/ LiveCallback(101, StaleFrames)
  \/ \E w \in Workers : svc_accepting(w)
  \/ \E v \in {MinCCDSize, DefaultCCDXSize} : OnCameraCCDXSize(v)
  \/ \E n \in BinValues : OnBinning(n)
  \/ \E t \in {"8bit", "16bit"} : OnPixelType(t)

SpecStale == Init /\ [][NextStale]_vars

\* A property handler has returned DEVICE_OK and the frame buffer has
\* another width, height or depth than before.
GeometryChanged == propRet' = "DEVICE_OK" /\ img_' # img_

\* A slot holds a frame that the drain step would still take  (1373).
StoredFrame == \E i \in Slots : imageNumber[i] > lastImageRead

\* C23 -- Stale slots are invalidated on a geometry change: after a
\* successful change of CCD size, binning or pixel format both slots'
\* sequence numbers are reset to -1, so that a frame stored under the
\* previous dimensions is never drained afterwards.
StaleSlotsInvalidated ==
  [][(GeometryChanged /\ StoredFrame)
       => \A i \in Slots : imageNumber'[i] = -1]_vars

\* Rectangle lists tried for SetMultiROI: one rectangle, and two that
\* overlap; none begins left of or above an ROI origin that SetROI sets.
ROILists ==
  {<<[x |-> 1, y |-> 0, w |-> 1, h |-> 1]>>,
   <<[x |-> 1, y |-> 0, w |-> 2, h |-> 1], [x |-> 2, y |-> 0, w |-> 1, h |-> 2]>>}

\* Synthesis of 3 x 2 images under every mode, with multiple ROIs and a
\* fill value.
NextMask ==
  \/ \E x \in {0, 1} : SetROI(x, 0, 3, 2)
  \/ \E rects \in ROILists : SetMultiROI(rects)
  \/ \E v \in {0, 200} : OnMultiROIFillValue(v)
  \/ \E val \in {"Artificial Waves", "Noise", "Color Test Pattern"} :
       OnMode(val)
  \/ \E t \in {"8bit", "16bit"} : OnPixelType(t)
  \/ RunSequenceOnThread

SpecMask == Init /\ [][NextMask]_vars

\* Column col and row r of the image lie in one of the rectangles, taken
\* relative to (roiX_, roiY_).
InsideROIs(col, r) ==
  \E k \in 1 .. Len(multiROI) :
    /\ col + roiX_ >= multiROI[k].x
    /\ col + roiX_ < multiROI[k].x + multiROI[k].w
    /\ r + roiY_ >= multiROI[k].y
    /\ r + roiY_ < multiROI[k].y + multiROI[k].h

\* The step is a call of GenerateSyntheticImage.
SynthesisStep == synthCalls' = synthCalls + 1

\* C24 -- Multi-ROI masking in every mode: when at least one multi-ROI
\* rectangle is configured, after GenerateSyntheticImage every pixel
\* outside the union of the rectangles (relative to roiX_, roiY_) equals
\* multiROIFillValue and every pixel inside keeps its pattern value, for
\* each pattern mode.
MaskedInEveryMode ==
  [][(SynthesisStep /\ multiROI # <<>>)
       => \A n \in 1 .. Len(pix') :
            IF InsideROIs((n - 1) % img_.Width, (n - 1) \div img_.Width)
              THEN pix'[n] = base'[n]
              ELSE pix'[n] = Num(multiROIFillValue_)]_vars

\* Synthesis of 3 x 2 sine images of either pixel type, with saturated and
\* dropped pixels and the image number switched on and off.
NextBounds ==
  \/ SetROI(0, 0, 3, 2)
  \/ \E t \in {"8bit", "16bit"} : OnPixelType(t)
  \/ \E v \in {0, 1} : OnDropPixels(v)
  \/ \E v \in {0, 1} : OnSaturatePixels(v)
  \/ OnFractionOfPixelsToDropOrSaturate(MaxFraction)
  \/ \E v \in {0, 1} : OnShouldDisplayImageNumber(v)
  \/ \E satDraws \in Draws(MaxForced), dropDraws \in Draws(MaxForced) :
       GenerateSyntheticImage_waves(satDraws, dropDraws)

SpecBounds == Init /\ [][NextBounds]_vars

\* Synthesis of 3 x 2 images under every mode, with saturated and dropped
\* pixels switched on and off and both fractions.
NextFault ==
  \/ SetROI(0, 0, 3, 2)
  \/ \E val \in {"Artificial Waves", "Noise", "Color Test Pattern"} :
       OnMode(val)
  \/ \E v \in {0, 1} : OnDropPixels(v)
  \/ \E v \in {0, 1} : OnSaturatePixels(v)
  \/ \E v \in {DefaultFraction, MaxFraction} :
       OnFractionOfPixelsToDropOrSaturate(v)
  \/ RunSequenceOnThread

SpecFault == Init /\ [][NextFault]_vars

\* C25 -- No out-of-bounds write in synthesis: for every width, height,
\* pixel format and every value the random source can return, each pixel
\* index that GenerateSyntheticImage writes (base pattern, drop / saturate
\* fault injection, frame-number overlay, ROI mask) satisfies
\* 0 <= row < H and 0 <= column < W.
WritesInBounds ==
  [][SynthesisStep
       => \A pos \in written' :
            /\ 0 <= pos[1] /\ pos[1] < img_.Height
            /\ 0 <= pos[2] /\ pos[2] < img_.Width]_vars

\* floor(0.5 + f * W * H) for the fraction f of the camera
ForcedCount ==
  (500 + (fractionOfPixelsToDropOrSaturate_ * img_.Width * img_.Height))
    \div 1000

\* The pixel of image p at <<row, column>>
PixelAt(p, pos) == p[(img_.Width * pos[1]) + pos[2] + 1]

\* C26 -- Fault injection independent of pattern mode: with dropPixels (or
\* saturatePixels) enabled and fraction f, in every mode except colour
\* test, GenerateSyntheticImage forces floor(0.5 + f * W * H) randomly drawn
\* pixel positions to 0 (resp. 2^bitDepth - 1) after the base pattern;
\* with both disabled no pixel is changed by fault injection.
FaultsInEveryMode ==
  [][(SynthesisStep /\ mode_ # "MODE_COLOR_TEST")
       => /\ dropPixels_
               => /\ Len(injected'.drop) = ForcedCount
                  /\ \A n \in 1 .. Len(injected'.drop) :
                       PixelAt(pix', injected'.drop[n]) = Num(0)
          /\ saturatePixels_
               => /\ Len(injected'.sat) = ForcedCount
                  /\ \A n \in 1 .. Len(injected'.sat) :
                       \/ \E m \in 1 .. Len(injected'.drop) :
                            injected'.drop[m] = injected'.sat[n]
                       \/ PixelAt(pix', injected'.sat[n])
                            = Num(2 ^ bitDepth_ - 1)
          /\ (~dropPixels_ /\ ~saturatePixels_)
               => injected' = NoFaults /\ pix' = base']_vars

\* Synthesis of 3 x 2 noise images of either pixel type with 8, 12 and 16
\* bits per pixel.
NextNoise ==
  \/ SetROI(0, 0, 3, 2)
  \/ OnMode("Noise")
  \/ \E t \in {"8bit", "16bit"} : OnPixelType(t)
  \/ \E b \in {8, 12, 16}, taken \in BOOLEAN : OnBitDepth(b, taken)
  \/ \E g1 \in GaussValues, g2 \in GaussValues :
       GenerateSyntheticImage_noise(g1, g2)

SpecNoise == Init /\ [][NextNoise]_vars

\* C27 -- Noise-mode clamping: for every sampled value, negative and
\* above-range ones included, the pixel value stored by
\* AddBackgroundAndNoise and by AddSignal lies in 0 .. 2^bitDepth - 1 after
\* the conversion to the storage type; a value above the range is stored
\* as the maximum, never wrapped.
NoiseClamped ==
  [][(SynthesisStep /\ mode_ = "MODE_NOISE")
       => LET max == 2 ^ bitDepth_ - 1
          IN  /\ noise'.stored \in 0 .. max
              /\ noise'.background > max => noise'.stored = max
              /\ \A n \in 1 .. Len(pix') :
                   /\ pix'[n].v \in 0 .. max
                   /\ noise'.stored + noise'.signal > max
                        => pix'[n].v = max]_vars

\* C28 -- Skipped frame leaves no trace: when LiveCallback finds both slot
\* locks held it writes no slot, does not advance imageCount, changes no
\* slot sequence number and does not set newImageAvailable; when it finds
\* a free slot it always uses the lowest-index free slot.
SkippedFrameLeavesNoTrace ==
  [][\A p \in Producers :
       /\ (ppc[p] = "try1" /\ ppc'[p] = "memcpy")
            => /\ bufferMutex[1] = NoOwner
               /\ bufferMutex' = [bufferMutex EXCEPT ![1] = p]
               /\ lockNumber'[p] = 1
       /\ ((ppc[p] = "idle" /\ ppc'[p] = "try1")
             \/ (ppc[p] = "try1" /\ ppc'[p] = "idle"))
            => UNCHANGED <<bufPix, imageCount, imageNumber,
                           newImageAvailable, bufferMutex>>
       /\ (ppc[p] = "idle" /\ ppc'[p] # "idle" /\ bufferMutex[0] = NoOwner)
            => /\ ppc'[p] = "memcpy"
               /\ bufferMutex' = [bufferMutex EXCEPT ![0] = p]
               /\ lockNumber'[p] = 0]_vars

\* A callback has found slot 0 held, and slot 1 is held as well.
SkipIsDue ==
  \E p \in Producers :
    /\ ppc[p] = "try1"
    /\ bufferMutex[0] \notin {NoOwner, p}
    /\ bufferMutex[1] \notin {NoOwner, p}

\* C29 -- Sequence numbers unique at the producer: when two LiveCallback
\* invocations run concurrently on different threads, each holding a
\* different slot lock, the numbers they record are distinct and each
\* equals a distinct value of the shared counter; the counter advances by
\* exactly one per stored frame.
ProducerNumbersUnique ==
  [][\A p \in Producers :
       (ppc[p] = "num" /\ ppc'[p] = "unlock")
         => \A i \in Slots \ {lockNumber[p]} :
              (recFrame[i] # Junk /\ recFrame[i] # pFrame[p])
                => imageNumber'[lockNumber[p]] # imageNumber[i]]_vars

\* C30 -- At most one worker per camera: in no reachable state are two
\* worker threads inside svc at the same time (between their creation by
\* activate() and their return from svc), so that the exit of an earlier
\* run's worker, which sets the stop flag, cannot fall into a later run.
OneWorkerPerCamera ==
  Cardinality({w \in Workers : wpc[w] \notin {"off", "done"}}) <= 1

\* A worker is between the header read and the end of the delivery (it reads
\* the slot through bufferWithHeader / imgBuf), or a callback is inside its
\* memcpy into the slot.
WorkerReadsSlot(w) == wpc[w] \in {"copy", "copying", "insert", "retry"}
ProducerWritesSlot(p) == ppc[p] = "memcpy"

\* C31 -- No use of released slot buffers: in no reachable state does a
\* worker (MoveImageToCircularBuffer) or a callback (LiveCallback) read or
\* write a slot buffer that StopSequenceAcquisition has freed.
NoUseAfterFree ==
  bufState = "freed" =>
    /\ \A w \in Workers : ~WorkerReadsSlot(w)
    /\ \A p \in Producers : ~ProducerWritesSlot(p)

\* C32 -- The image-pixels lock is not held while waiting for a frame: a
\* worker that is blocked in cv.wait with the new-frame flag false does not
\* own imgPixelsLock_, so a thread that needs the lock (GetImageBuffer,
\* GenerateEmptyImage) is not kept out while the frame source is silent.
PixelsLockFreeWhileWaiting ==
  \A w \in Workers : wpc[w] = "cvwait" => imgPixelsLock_ # w

\* One run of 1 .. MaxCount frames during which the application suspends
\* and resumes the acquisition thread; the sink accepts every frame.
NextSuspend ==
  \/ \E n \in 1 .. MaxCount : Start_check(n, FALSE, TRUE, MaxStarts)
  \/ Start_alloc
  \/ Start_live
  \/ Start_thread
  \/ Start_flag
  \/ Suspend
  \/ Resume
  \/ LiveCallback(101, MaxFrames)
  \/ \E w \in Workers : svc_accepting(w)

SpecSuspend == Init /\ [][NextSuspend]_vars

\* C33 -- Suspend and Resume only toggle the suspend flag: Suspend leaves
\* IsSuspended() true, Resume leaves it false, and a step that changes the
\* flag outside Start changes neither the stop flag, the thread's frame
\* counter, the target count nor the position or result of any worker; the
\* step of Start that launches the thread always leaves the flag cleared.
SuspendOnlyToggles ==
  [][/\ (Suspend => IsSuspended')
     /\ (Resume => ~IsSuspended')
     /\ ((apc # "start_thd" /\ IsSuspended' # IsSuspended)
           => UNCHANGED <<stop_, thd_imageCounter_, numImages_, nActivated,
                          wpc, ret>>)
     /\ ((apc = "start_thd" /\ apc' # "start_thd") => ~IsSuspended')]_vars

\* A run is under way, suspended, with a worker inside the drain step.
SuspendedWhileRunning ==
  /\ IsSuspended
  /\ ~IsStopped
  /\ \E w \in Workers : wpc[w] \in {"cvwait", "scan", "insert"}

\* C34 -- The overflow policy of a run is the one passed to its Start: when
\* the worker of the run being started gets the sink's answer to a delivery
\* (and decides on it whether to clear and retry), stopOnOverflow_ holds the
\* value given to that StartSequenceAcquisition call.
PolicyOfThisRun ==
  [][\A w \in Workers :
       (/\ w = nActivated
        /\ wpc[w] = "insert" /\ wpc'[w] # "insert"
        /\ apc = "start_flag")
         => stopOnOverflow_ = aOverflow]_vars

\* C35 -- No lost wake-up: whenever a worker is blocked in cv.wait with
\* newImageAvailable false and no LiveCallback invocation is in progress,
\* neither slot holds a sequence number greater than lastImageRead.
NoLostWakeup ==
  \A w \in Workers :
    (/\ wpc[w] = "cvwait"
     /\ ~newImageAvailable
     /\ \A p \in Producers : ppc[p] = "idle")
      => \A i \in Slots : imageNumber[i] <= lastImageRead

\* The worker of the current run: the thread the last Start created, or,
\* while a Start has reset the counter and not yet created its thread, the
\* one it is going to create.
RunWorker ==
  IF apc \in {"start_alloc", "start_live", "start_thd"}
    THEN nActivated + 1 ELSE nActivated

\* The frames the sink accepted from the drain steps of the current run.
AcceptedInRun == SelectSeq(sunk, LAMBDA f : f.w = RunWorker)

\* C36 -- The camera's frames-delivered counter counts accepted frames
\* only: at every point, imageCounter_ equals the number of drain steps of
\* the current run whose final sink result was DEVICE_OK.
CounterCountsAccepted == imageCounter_ = Len(AcceptedInRun)

\* C37 -- Bit depth round trip: for every bit depth d of 8, 10, 11, 12, 14,
\* 16 and either pixel type, a set of BitDepth to d that succeeds while no
\* run is active leaves GetBitDepth() = d and at least ceil(d / 8) bytes
\* per pixel.
BitDepthRoundTrip ==
  [][\A d \in BitDepths \ {9, 32}, taken \in BOOLEAN :
       (/\ ~IsCapturing
        /\ OnBitDepth(d, taken)
        /\ propRet' = "DEVICE_OK")
         => /\ bitDepth_' = d
            /\ img_'.Depth >= (d + 7) \div 8]_vars

\* ======================================================================
\* Scheduling: every thread that can take a step eventually takes one.
\* New calls of the API and new callbacks are not forced.
\* ======================================================================
CallbackRuns(p) ==
  \/ LiveCallback_try1(p)
  \/ LiveCallback_memcpy(p)
  \/ LiveCallback_incRead(p)
  \/ LiveCallback_incWrite(p)
  \/ LiveCallback_number(p)
  \/ LiveCallback_unlock(p)
  \/ LiveCallback_signal(p)

ApiRuns ==
  \/ Start_alloc
  \/ Start_live
  \/ Start_thread
  \/ Start_flag
  \/ Stop_thread
  \/ Stop_free

Fairness ==
  /\ \A w \in Workers : WF_vars(svc(w))
  /\ \A p \in Producers : WF_vars(CallbackRuns(p))
  /\ WF_vars(ApiRuns)

FairSpec == Spec /\ Fairness

\* C9 -- Stop always takes effect: once StopSequenceAcquisition has been
\* called during a run, the worker eventually leaves the drain loop and
\* fires the finished notification.
StopTakesEffect ==
  \A w \in Workers :
     (stopRequested /\ wpc[w] # "off") ~> (wpc[w] = "done")

====
